---- MODULE Spec2Model ----
(***************************************************************************)
(* Register access layer of svd2rust (src/generate/generic.rs): the raw    *)
(* register word types, the field writer proxies and the read / write /    *)
(* modify / reset protocol of Reg<REG>.                                    *)
(*                                                                         *)
(* A machine word (u8, u16, u32, u64) of `size` bits is the set of the     *)
(* positions of its 1 bits, a subset of 0..size-1 (bit 0 is the least      *)
(* significant).  This keeps every width exact, u64 included.              *)
(***************************************************************************)
EXTENDS Integers, Sequences, FiniteSets, TLC

VARIABLES
    REG,        \* the register type's constants: RESET_VALUE and the two bitmaps
    register,   \* Reg.register: the contents of the volatile cell
    pc,         \* position of the accessor: "idle", or inside modify after its load
    cur,        \* the call in progress (modify between its load and its store)
    last,       \* the last completed call or change made by the hardware (none yet
                \* since the call in progress began)
    prev,       \* after a read: the call completed just before it; in and after a
                \* modify: the modify completed just before its load, or the change
                \* made to the register since its load (none otherwise)
    mem,        \* the volatile loads and stores of the last (or current) call, in order
    mk,         \* mask::<WI>() evaluation: width, WI and the result
    fld,        \* the field writer proxy in use: its kind and const generics
    wbits,      \* W.bits: the working word of the writer
    wpre,       \* the working word before the last field operation
    fop,        \* the last field operation applied
    rep,        \* how many times in a row fop was applied (counted up to 2)
    acs,        \* access_of: the register's properties, its fields and the result
    acc,        \* Accessor::raw_if: the accessor and what the calls made of it
    arr,        \* the emitted raw array accessor: its constants, the index, the result
    nm,         \* name sanitization: the raw name, the configuration, the results
    ut          \* the other functions of util.rs: the arguments and the results

regVars == <<REG, register, pc, cur, last, prev, mem>>
maskVars == <<mk>>
fieldVars == <<fld, wbits, wpre, fop, rep>>
genVars == <<acs, acc, arr, nm, ut>>
vars == <<REG, register, pc, cur, last, prev, mem, mk, fld, wbits, wpre, fop, rep,
          acs, acc, arr, nm, ut>>

----------------------------------------------------------------------------
(* Raw register words.                                                     *)

\* raw_reg!(u8, 8, ..), raw_reg!(u16, 16, ..), raw_reg!(u32, 32, ..), raw_reg!(u64, 64, ..)
Sizes == {8, 16, 32, 64}

\* <$U>::MAX
MAX(size) == 0 .. (size - 1)

\* REG::Ux::default()
Zero == {}

\* core::ops::BitAnd, BitOr, Not of a word of `size` bits
And(a, b) == a \cap b
Or(a, b) == a \cup b
Not(a, size) == MAX(size) \ a

\* x >> n, for n < size
Shr(x, n) == {i - n : i \in {j \in x : j >= n}}

\* core::ops::Shl<u8>: x << n, for n < size; bits shifted past the top are lost
Shl(x, n, size) == {i + n : i \in {j \in x : j + n < size}}

\* The word of the number n (a literal such as 0xA5), and the number of a word.
ToWord(n, size) == {i \in 0 .. (size - 1) : (n \div (2 ^ i)) % 2 = 1}

RECURSIVE ToNat(_)
ToNat(x) == IF x = {} THEN 0
            ELSE LET i == CHOOSE j \in x : TRUE IN (2 ^ i) + ToNat(x \ {i})

mask_wide(size, WI) == Shr(MAX(size), size - WI + 1)

\* const fn $mask<const WI: u8>() -> $U { <$U>::MAX >> ($size - WI) }
mask(size, WI) == Shr(MAX(size), size - WI)

\* fn one() -> Self { 1 }
one == {0}

\* From<bool> for a word
FromBool(v) == IF v THEN {0} ELSE {}

----------------------------------------------------------------------------
(* Evaluation of mask::<WI>() for every register type and every width.     *)

MaskIdle == [size |-> 0, WI |-> 0, done |-> FALSE, result |-> {}]

MaskInit ==
    \E size \in Sizes : \E WI \in 1 .. size :
        mk = [size |-> size, WI |-> WI, done |-> FALSE, result |-> {}]

CallMask ==
    /\ ~mk.done
    /\ mk' = [mk EXCEPT !.done = TRUE, !.result = mask(mk.size, mk.WI)]

----------------------------------------------------------------------------
(* Field writer proxies.  `size` is the width of REG::Ux, w the working    *)
(* word W.bits, WI and OF the proxy's const generics.                      *)

\* REG::Ux::from(value) for value: FI::Ux, an unsigned type no wider than REG::Ux:
\* zero extension, the same 1 bits.
UxFrom(value) == value

\* U32Ext::to_ty_width: the width of FI::Ux for a field of WI bits (bool counts as u8
\* here: FieldWriter's default FI is u8).
FieldUx(WI) == IF WI <= 8 THEN 8 ELSE IF WI <= 16 THEN 16 ELSE IF WI <= 32 THEN 32 ELSE 64

FieldWriter_bits_unmasked(size, w, WI, OF, value) ==
    Or(And(w, Not(Shl(mask(size, WI), OF, size), size)), Shl(UxFrom(value), OF, size))

FieldWriter_bits_unshifted(size, w, WI, OF, value) ==
    Or(And(w, Not(Shl(mask(size, WI), OF, size), size)), And(UxFrom(value), mask(size, WI)))

\* FieldWriter::bits (unsafe)
FieldWriter_bits(size, w, WI, OF, value) ==
    LET w1 == And(w, Not(Shl(mask(size, WI), OF, size), size))
    IN  Or(w1, Shl(And(UxFrom(value), mask(size, WI)), OF, size))

FieldWriter_variant_xor(size, w, WI, OF, v) ==
    LET x == Shl(And(UxFrom(v), mask(size, WI)), OF, size)
    IN  (w \ x) \cup (x \ w)

\* FieldWriter::variant: unsafe { self.bits(FI::Ux::from(variant)) }
FieldWriter_variant(size, w, WI, OF, v) ==
    FieldWriter_bits(size, w, WI, OF, v)

FieldWriterSafe_bits_noclear(size, w, WI, OF, value) ==
    Or(w, Shl(And(UxFrom(value), mask(size, WI)), OF, size))

\* FieldWriterSafe::bits
FieldWriterSafe_bits(size, w, WI, OF, value) ==
    LET w1 == And(w, Not(Shl(mask(size, WI), OF, size), size))
    IN  Or(w1, Shl(And(UxFrom(value), mask(size, WI)), OF, size))

\* FieldWriterSafe::variant: self.bits(FI::Ux::from(variant))
FieldWriterSafe_variant(size, w, WI, OF, v) ==
    FieldWriterSafe_bits(size, w, WI, OF, v)

\* impl_bit_proxy!: bit
bit(size, w, OF, value) ==
    LET w1 == And(w, Not(Shl(one, OF, size), size))
    IN  Or(w1, Shl(And(FromBool(value), one), OF, size))

\* impl_bit_proxy!: variant: self.bit(bool::from(variant))
variant(size, w, OF, v) == bit(size, w, OF, v)

\* BitWriter::set_bit, BitWriter::clear_bit
BitWriter_set_bit(size, w, OF) == Or(w, Shl(one, OF, size))
BitWriter_clear_bit(size, w, OF) == And(w, Not(Shl(one, OF, size), size))

\* BitWriter1S::set_bit
BitWriter1S_set_bit(size, w, OF) == Or(w, Shl(one, OF, size))

\* BitWriter0C::clear_bit
BitWriter0C_clear_bit(size, w, OF) == And(w, Not(Shl(one, OF, size), size))

BitWriter1C_clearing(size, w, OF) == And(w, Not(Shl(one, OF, size), size))

\* BitWriter1C::clear_bit_by_one
BitWriter1C_clear_bit_by_one(size, w, OF) == Or(w, Shl(one, OF, size))

\* BitWriter0S::set_bit_by_zero
BitWriter0S_set_bit_by_zero(size, w, OF) == And(w, Not(Shl(one, OF, size), size))

BitWriter1T_toggle_xor(size, w, OF) ==
    (w \ Shl(one, OF, size)) \cup (Shl(one, OF, size) \ w)

\* BitWriter1T::toggle_bit
BitWriter1T_toggle_bit(size, w, OF) == Or(w, Shl(one, OF, size))

\* BitWriter0T::toggle_bit
BitWriter0T_toggle_bit(size, w, OF) == And(w, Not(Shl(one, OF, size), size))

\* The proxy types: FieldWriter, FieldWriterSafe and the seven bit_proxy! types.
FieldKinds == {"FieldWriter", "FieldWriterSafe"}
BitKinds == {"BitWriter", "BitWriter1S", "BitWriter0C", "BitWriter1C",
             "BitWriter0S", "BitWriter1T", "BitWriter0T"}

\* The public methods each proxy type has that return W: the impl blocks of the type
\* and the impl_bit_proxy! invocations, one per bit proxy type.
Methods(kind) ==
    CASE kind \in FieldKinds -> {"bits", "variant"}
      [] kind = "BitWriter"   -> {"bit", "variant", "set_bit", "clear_bit"}
      [] kind = "BitWriter1S" -> {"bit", "variant", "set_bit"}
      [] kind = "BitWriter0C" -> {"bit", "variant", "clear_bit"}
      [] kind = "BitWriter1C" -> {"bit", "variant", "clear_bit_by_one"}
      [] kind = "BitWriter0S" -> {"bit", "variant", "set_bit_by_zero"}
      [] kind = "BitWriter1T" -> {"bit", "variant", "toggle_bit"}
      [] kind = "BitWriter0T" -> {"bit", "variant", "toggle_bit"}

\* The call field.name(arg) of proxy f = [kind, WI, OF] on the working word w.
\* arg is a word for bits / variant of a multi-bit proxy, a BOOLEAN for bit / variant
\* of a bit proxy, and unused otherwise.
Apply(size, w, f, name, arg) ==
    CASE f.kind = "FieldWriter" /\ name = "bits" ->
            FieldWriter_bits(size, w, f.WI, f.OF, arg)
      [] f.kind = "FieldWriter" /\ name = "variant" ->
            FieldWriter_variant(size, w, f.WI, f.OF, arg)
      [] f.kind = "FieldWriterSafe" /\ name = "bits" ->
            FieldWriterSafe_bits(size, w, f.WI, f.OF, arg)
      [] f.kind = "FieldWriterSafe" /\ name = "variant" ->
            FieldWriterSafe_variant(size, w, f.WI, f.OF, arg)
      [] f.kind \in BitKinds /\ name = "bit" -> bit(size, w, f.OF, arg)
      [] f.kind \in BitKinds /\ name = "variant" -> variant(size, w, f.OF, arg)
      [] f.kind = "BitWriter" /\ name = "set_bit" -> BitWriter_set_bit(size, w, f.OF)
      [] f.kind = "BitWriter" /\ name = "clear_bit" -> BitWriter_clear_bit(size, w, f.OF)
      [] f.kind = "BitWriter1S" /\ name = "set_bit" -> BitWriter1S_set_bit(size, w, f.OF)
      [] f.kind = "BitWriter0C" /\ name = "clear_bit" ->
            BitWriter0C_clear_bit(size, w, f.OF)
      [] f.kind = "BitWriter1C" /\ name = "clear_bit_by_one" ->
            BitWriter1C_clear_bit_by_one(size, w, f.OF)
      [] f.kind = "BitWriter0S" /\ name = "set_bit_by_zero" ->
            BitWriter0S_set_bit_by_zero(size, w, f.OF)
      [] f.kind = "BitWriter1T" /\ name = "toggle_bit" ->
            BitWriter1T_toggle_bit(size, w, f.OF)
      [] f.kind = "BitWriter0T" /\ name = "toggle_bit" ->
            BitWriter0T_toggle_bit(size, w, f.OF)

----------------------------------------------------------------------------
(* A writer proxy at work: one field of one register type, and the calls   *)
(* made on it.  Registers of 8 bits take every field shape; the wider      *)
(* register types take the shapes at the edges of the word.                *)

\* <<WI, OF>> with 1 <= WI and OF + WI <= size
Shapes(size) ==
    IF size = 8
    THEN {s \in (1 .. size) \X (0 .. (size - 1)) : s[1] + s[2] <= size}
    ELSE {<<1, size - 1>>, <<size, 0>>, <<size - 8, 8>>, <<8, size - 8>>,
          <<3, 5>>, <<size - 1, 1>>, <<9, 0>>}

BitOffsets(size) == IF size = 8 THEN 0 .. (size - 1) ELSE {0, 8, size - 1}

Fields(size) ==
    {[size |-> size, kind |-> k, WI |-> s[1], OF |-> s[2]] :
        k \in FieldKinds, s \in Shapes(size)}
    \cup {[size |-> size, kind |-> k, WI |-> 1, OF |-> o] :
        k \in BitKinds, o \in BitOffsets(size)}

\* The words a writer starts from: all zero, all one, and 0xA5 repeated.
StartWords(size) == {Zero, MAX(size), {i \in MAX(size) : (i % 8) \in {0, 2, 5, 7}}}

\* Raw values handed to bits(): values of FI::Ux, some of them wider than the field.
RawValues(WI) ==
    {Zero, {0}, {WI - 1}, MAX(WI), MAX(FieldUx(WI)), {i \in MAX(WI) : i % 2 = 1}}
    \cup (IF WI < FieldUx(WI) THEN {{WI}, {0, WI}} ELSE {})

\* The enumerated values of a field of WI bits: values of the field, below 2^WI.
Variants(WI) == {v \in RawValues(WI) : v \subseteq MAX(WI)}

NoOp(kind) == [name |-> "none", arg |-> IF kind \in FieldKinds THEN {} ELSE FALSE]

FieldIdle ==
    /\ fld = [size |-> 0, kind |-> "none", WI |-> 0, OF |-> 0]
    /\ wbits = {}
    /\ wpre = {}
    /\ fop = [name |-> "none", arg |-> FALSE]
    /\ rep = 0

FieldInit ==
    /\ fld \in UNION {Fields(size) : size \in Sizes}
    /\ wbits \in StartWords(fld.size)
    /\ wpre = wbits
    /\ fop = NoOp(fld.kind)
    /\ rep = 0

\* The call fld.name(arg) on the writer.
CallField(name, arg) ==
    /\ name \in Methods(fld.kind)
    /\ wbits' = Apply(fld.size, wbits, fld, name, arg)
    /\ wpre' = wbits
    /\ fop' = [name |-> name, arg |-> arg]
    /\ rep' = IF fop = [name |-> name, arg |-> arg] THEN 2 ELSE 1
    /\ UNCHANGED fld

FieldBits == fld.kind \in FieldKinds /\ \E v \in RawValues(fld.WI) : CallField("bits", v)
FieldVariant == fld.kind \in FieldKinds /\ \E v \in Variants(fld.WI) : CallField("variant", v)
BitBit == fld.kind \in BitKinds /\ \E v \in BOOLEAN : CallField("bit", v)
BitVariant == fld.kind \in BitKinds /\ \E v \in BOOLEAN : CallField("variant", v)
SetBit == fld.kind \in BitKinds /\ CallField("set_bit", FALSE)
ClearBit == fld.kind \in BitKinds /\ CallField("clear_bit", FALSE)
ClearBitByOne == fld.kind \in BitKinds /\ CallField("clear_bit_by_one", FALSE)
SetBitByZero == fld.kind \in BitKinds /\ CallField("set_bit_by_zero", FALSE)
ToggleBit == fld.kind \in BitKinds /\ CallField("toggle_bit", FALSE)

----------------------------------------------------------------------------
(* Reg<REG>: one memory-mapped register of type u8 and the calls on it.    *)

\* raw_reg!(u8, 8, mask_u8): the register type of the registers modelled here
RegSize == 8

\* Field layouts of the register types: the writer proxies W<REG> hands out.
Fld(kind, WI, OF) == [size |-> RegSize, kind |-> kind, WI |-> WI, OF |-> OF]

Layouts ==
    { <<Fld("FieldWriter", 3, 2), Fld("BitWriter", 1, 0)>>,
      <<Fld("FieldWriterSafe", 4, 4), Fld("BitWriter1C", 1, 1)>>,
      <<Fld("FieldWriter", 8, 0)>>,
      <<Fld("BitWriter", 1, 7), Fld("FieldWriterSafe", 2, 0)>>,
      <<Fld("FieldWriter", 1, 5), Fld("BitWriter0C", 1, 6)>> }

\* impl Resettable / impl Writable for a register type: RESET_VALUE and the bitmaps.
RegTypes ==
    {[RESET_VALUE |-> ToWord(rv, RegSize),
      ONE_TO_MODIFY_FIELDS_BITMAP |-> ToWord(om, RegSize),
      ZERO_TO_MODIFY_FIELDS_BITMAP |-> ToWord(zm, RegSize),
      fields |-> l] :
        rv \in {165, 0}, om \in {0, 15}, zm \in {0, 3}, l \in Layouts}

\* What the hardware, or another holder of the register, may leave in it.
HwWords == {ToWord(60, RegSize)}

\* R::new, R::bits, W::new
R_new(bits) == [bits |-> bits]
R_bits(r) == r.bits
W_new(bits) == [bits |-> bits]

\* One call of a closure body: field.name(arg)
Step(f, name, arg) == [f |-> f, name |-> name, arg |-> arg]

StepsOf(f) ==
    IF f.kind \in FieldKinds
    THEN {Step(f, "bits", MAX(FieldUx(f.WI)))}
         \cup {Step(f, "variant", v) : v \in {Zero, MAX(f.WI), {0}}}
    ELSE {Step(f, "variant", v) : v \in BOOLEAN}
         \cup {Step(f, n, FALSE) : n \in Methods(f.kind) \ {"bit", "variant"}}

\* The closures passed to write, write_with_zero and modify: |w| w, one field call,
\* or a call on the first field followed by a call on the second.
Closures(fields) ==
    {<<>>}
    \cup {<<s>> : s \in UNION {StepsOf(fields[i]) : i \in 1 .. Len(fields)}}
    \cup (IF Len(fields) < 2 THEN {}
          ELSE {<<s, t>> : s \in {x \in StepsOf(fields[1]) :
                                       x.name = "variant" /\ x.arg = (IF x.f.kind \in FieldKinds
                                                              THEN MAX(x.f.WI) ELSE TRUE)},
                           t \in {x \in StepsOf(fields[2]) : x.name = "variant"}})

\* f(w): the closure's calls applied in order to the writer it is given.
RECURSIVE RunClosure(_, _)
RunClosure(f, w) ==
    IF f = <<>> THEN w
    ELSE RunClosure(Tail(f),
                    W_new(Apply(RegSize, w.bits, Head(f).f, Head(f).name, Head(f).arg)))

NoCall == [name |-> "none", f |-> <<>>, r |-> R_new(Zero), w0 |-> W_new(Zero),
           w |-> W_new(Zero)]

Load(v) == [op |-> "load", val |-> v]
Store(v) == [op |-> "store", val |-> v]

RegIdle ==
    /\ REG = [RESET_VALUE |-> {}, ONE_TO_MODIFY_FIELDS_BITMAP |-> {},
              ZERO_TO_MODIFY_FIELDS_BITMAP |-> {}, fields |-> <<>>]
    /\ register = {}
    /\ pc = "idle"
    /\ cur = NoCall
    /\ last = NoCall
    /\ prev = NoCall
    /\ mem = <<>>

RegInit ==
    /\ REG \in RegTypes
    /\ register = REG.RESET_VALUE
    /\ pc = "idle"
    /\ cur = NoCall
    /\ last = NoCall
    /\ prev = NoCall
    /\ mem = <<>>

ReadCached ==
    /\ pc = "idle"
    /\ last' = [NoCall EXCEPT !.name = "read",
                              !.r = IF mem # <<>> /\ mem[1].op = "load"
                                    THEN R_new(mem[1].val) ELSE R_new(register)]
    /\ prev' = last
    /\ mem' = <<Load(register)>>
    /\ UNCHANGED <<REG, register, pc, cur>>

\* Reg::read: R::new(self.register.get())
Read ==
    /\ pc = "idle"
    /\ last' = [NoCall EXCEPT !.name = "read", !.r = R_new(register)]
    /\ prev' = last
    /\ mem' = <<Load(register)>>
    /\ UNCHANGED <<REG, register, pc, cur>>

ResetMasked ==
    /\ pc = "idle"
    /\ LET v == Or(And(REG.RESET_VALUE, Not(REG.ONE_TO_MODIFY_FIELDS_BITMAP, RegSize)),
                   REG.ZERO_TO_MODIFY_FIELDS_BITMAP)
       IN /\ register' = v
          /\ mem' = <<Store(v)>>
          /\ last' = [NoCall EXCEPT !.name = "reset", !.w = W_new(v)]
    /\ prev' = NoCall
    /\ UNCHANGED <<REG, pc, cur>>

\* Reg::reset: self.register.set(REG::RESET_VALUE); W::new(REG::RESET_VALUE)
Reset ==
    /\ pc = "idle"
    /\ register' = REG.RESET_VALUE
    /\ mem' = <<Store(REG.RESET_VALUE)>>
    /\ last' = [NoCall EXCEPT !.name = "reset", !.w = W_new(REG.RESET_VALUE)]
    /\ prev' = NoCall
    /\ UNCHANGED <<REG, pc, cur>>

write_baseline_reset(REG_) == REG_.RESET_VALUE

write_baseline_or_first(REG_) ==
    And(Or(REG_.RESET_VALUE, REG_.ZERO_TO_MODIFY_FIELDS_BITMAP),
        Not(REG_.ONE_TO_MODIFY_FIELDS_BITMAP, RegSize))

\* Reg::write: REG::RESET_VALUE & !REG::ONE_TO_MODIFY_FIELDS_BITMAP
\*                 | REG::ZERO_TO_MODIFY_FIELDS_BITMAP
write_baseline(REG_) ==
    Or(And(REG_.RESET_VALUE, Not(REG_.ONE_TO_MODIFY_FIELDS_BITMAP, RegSize)),
       REG_.ZERO_TO_MODIFY_FIELDS_BITMAP)

\* Reg::write(f)
Write ==
    /\ pc = "idle"
    /\ \E f \in Closures(REG.fields) :
        LET w0 == W_new(write_baseline(REG))
            w == RunClosure(f, w0)
        IN /\ register' = w.bits
           /\ mem' = <<Store(w.bits)>>
           /\ last' = [NoCall EXCEPT !.name = "write", !.f = f, !.w0 = w0, !.w = w]
    /\ prev' = NoCall
    /\ UNCHANGED <<REG, pc, cur>>

WriteWithZero_from_reset ==
    /\ pc = "idle"
    /\ \E f \in Closures(REG.fields) :
        LET w0 == W_new(write_baseline(REG))
            w == RunClosure(f, w0)
        IN /\ register' = w.bits
           /\ mem' = <<Store(w.bits)>>
           /\ last' = [NoCall EXCEPT !.name = "write_with_zero", !.f = f, !.w0 = w0,
                                     !.w = w]
    /\ prev' = NoCall
    /\ UNCHANGED <<REG, pc, cur>>

\* Reg::write_with_zero(f): self.register.set(f(W::new(REG::Ux::default())).bits)
WriteWithZero ==
    /\ pc = "idle"
    /\ \E f \in Closures(REG.fields) :
        LET w0 == W_new(Zero)
            w == RunClosure(f, w0)
        IN /\ register' = w.bits
           /\ mem' = <<Store(w.bits)>>
           /\ last' = [NoCall EXCEPT !.name = "write_with_zero", !.f = f, !.w0 = w0,
                                     !.w = w]
    /\ prev' = NoCall
    /\ UNCHANGED <<REG, pc, cur>>

modify_baseline_plain(REG_, bits) == bits

modify_baseline_from_reset(REG_, bits) == write_baseline(REG_)

\* Reg::modify: bits & !REG::ONE_TO_MODIFY_FIELDS_BITMAP | REG::ZERO_TO_MODIFY_FIELDS_BITMAP
modify_baseline(REG_, bits) ==
    Or(And(bits, Not(REG_.ONE_TO_MODIFY_FIELDS_BITMAP, RegSize)),
       REG_.ZERO_TO_MODIFY_FIELDS_BITMAP)

\* Reg::modify(f), up to the call of f: let bits = self.register.get(); let w = f(..)
ModifyLoad ==
    /\ pc = "idle"
    /\ \E f \in Closures(REG.fields) :
        LET bits == register
            w0 == W_new(modify_baseline(REG, bits))
        IN /\ cur' = [name |-> "modify", f |-> f, r |-> R_new(bits), w0 |-> w0,
                      w |-> RunClosure(f, w0)]
           /\ mem' = <<Load(bits)>>
    /\ pc' = "modify"
    /\ last' = NoCall
    /\ prev' = IF last.name = "modify"
               THEN [NoCall EXCEPT !.name = "modify", !.f = last.f, !.w = last.w]
               ELSE NoCall
    /\ UNCHANGED <<REG, register>>

ModifyStore_reload ==
    /\ pc = "modify"
    /\ LET w == RunClosure(cur.f, W_new(modify_baseline(REG, register)))
       IN  /\ register' = w.bits
           /\ mem' = Append(mem, Store(w.bits))
           /\ last' = [cur EXCEPT !.w = w]
    /\ cur' = NoCall
    /\ pc' = "idle"
    /\ UNCHANGED <<REG, prev>>

\* Reg::modify(f), the rest: self.register.set(w.bits); w
ModifyStore ==
    /\ pc = "modify"
    /\ register' = cur.w.bits
    /\ mem' = Append(mem, Store(cur.w.bits))
    /\ last' = cur
    /\ cur' = NoCall
    /\ pc' = "idle"
    /\ UNCHANGED <<REG, prev>>

\* The hardware, or an interrupt handler holding the same register, changes its
\* contents; this may happen between modify's load and its store.
HwChange ==
    /\ \E v \in HwWords : register' = v
    /\ last' = [NoCall EXCEPT !.name = "hw"]
    /\ prev' = IF pc = "modify" THEN [NoCall EXCEPT !.name = "hw", !.w = W_new(register')]
               ELSE NoCall
    /\ UNCHANGED <<REG, pc, cur, mem>>

----------------------------------------------------------------------------
(* The code generator's helpers (src/util.rs, src/generate/peripheral/     *)
(* accessor.rs) at rest, while the register access layer is exercised.     *)

AccessIdle == [access |-> "None", fields |-> [some |-> FALSE, list |-> <<>>],
               ret |-> "none"]
AccessorIdle == [a |-> "none", flags |-> <<>>, out |-> <<>>]
ArrayIdle == [addr |-> 0, offset |-> 0, dim |-> 0, increment |-> 0, n |-> 0,
              at |-> "none", ret |-> 0, calls |-> 0, pos |-> 0, items |-> <<>>,
              ended |-> FALSE]
NoFn == [name |-> "none", case |-> "Unchanged", prefix |-> <<>>, suffix |-> <<>>]
NameIdle == [s |-> <<>>, fn |-> NoFn, out |-> <<>>]
UtIdle == [fn |-> "none"]

GenIdle == acs = AccessIdle /\ acc = AccessorIdle /\ arr = ArrayIdle /\ nm = NameIdle /\ ut = UtIdle

LayerIdle == RegIdle /\ mk = MaskIdle /\ FieldIdle

----------------------------------------------------------------------------
(* Specifications.                                                         *)

Init == RegInit /\ mk = MaskIdle /\ FieldIdle /\ GenIdle

Next ==
    \/ (Read /\ UNCHANGED <<mk, fld, wbits, wpre, fop, rep, acs, acc, arr, nm, ut>>)
    \/ (Reset /\ UNCHANGED <<mk, fld, wbits, wpre, fop, rep, acs, acc, arr, nm, ut>>)
    \/ (Write /\ UNCHANGED <<mk, fld, wbits, wpre, fop, rep, acs, acc, arr, nm, ut>>)
    \/ (WriteWithZero /\ UNCHANGED <<mk, fld, wbits, wpre, fop, rep, acs, acc, arr, nm, ut>>)
    \/ (ModifyLoad /\ UNCHANGED <<mk, fld, wbits, wpre, fop, rep, acs, acc, arr, nm, ut>>)
    \/ (ModifyStore /\ UNCHANGED <<mk, fld, wbits, wpre, fop, rep, acs, acc, arr, nm, ut>>)
    \/ (HwChange /\ UNCHANGED <<mk, fld, wbits, wpre, fop, rep, acs, acc, arr, nm, ut>>)

Spec == Init /\ [][Next]_vars

MaskSpecInit == MaskInit /\ RegIdle /\ FieldIdle /\ GenIdle

MaskNext == CallMask /\ UNCHANGED <<REG, register, pc, cur, last, prev, mem>>
                     /\ UNCHANGED <<fld, wbits, wpre, fop, rep, acs, acc, arr, nm, ut>>

SpecMask == MaskSpecInit /\ [][MaskNext]_vars

FieldSpecInit == FieldInit /\ mk = MaskIdle /\ RegIdle /\ GenIdle

FieldNext ==
    \/ (FieldBits /\ UNCHANGED <<REG, register, pc, cur, last, prev, mem, mk, acs, acc, arr, nm, ut>>)
    \/ (FieldVariant /\ UNCHANGED <<REG, register, pc, cur, last, prev, mem, mk, acs, acc, arr, nm, ut>>)
    \/ (BitBit /\ UNCHANGED <<REG, register, pc, cur, last, prev, mem, mk, acs, acc, arr, nm, ut>>)
    \/ (BitVariant /\ UNCHANGED <<REG, register, pc, cur, last, prev, mem, mk, acs, acc, arr, nm, ut>>)
    \/ (SetBit /\ UNCHANGED <<REG, register, pc, cur, last, prev, mem, mk, acs, acc, arr, nm, ut>>)
    \/ (ClearBit /\ UNCHANGED <<REG, register, pc, cur, last, prev, mem, mk, acs, acc, arr, nm, ut>>)
    \/ (ClearBitByOne /\ UNCHANGED <<REG, register, pc, cur, last, prev, mem, mk, acs, acc, arr, nm, ut>>)
    \/ (SetBitByZero /\ UNCHANGED <<REG, register, pc, cur, last, prev, mem, mk, acs, acc, arr, nm, ut>>)
    \/ (ToggleBit /\ UNCHANGED <<REG, register, pc, cur, last, prev, mem, mk, acs, acc, arr, nm, ut>>)

SpecField == FieldSpecInit /\ [][FieldNext]_vars

----------------------------------------------------------------------------
(* Properties of the register protocol (Spec).                             *)

ExampleReg(r) ==
    /\ r.RESET_VALUE = ToWord(165, RegSize)
    /\ r.ONE_TO_MODIFY_FIELDS_BITMAP = ToWord(15, RegSize)
    /\ r.ZERO_TO_MODIFY_FIELDS_BITMAP = ToWord(0, RegSize)

\* Bit i of (x & ~ONE_TO_MODIFY) | ZERO_TO_MODIFY, stated bit by bit.
BaselineBit(i, x) ==
    (i \in x /\ i \notin REG.ONE_TO_MODIFY_FIELDS_BITMAP)
        \/ i \in REG.ZERO_TO_MODIFY_FIELDS_BITMAP

\* C1: write(f) hands f a writer whose bits are (RESET_VALUE & ~ONE_TO_MODIFY) |
\* ZERO_TO_MODIFY, then performs exactly one store, of the word f returns, and no
\* load; RESET_VALUE=0xA5, ONE_TO_MODIFY=0x0F, ZERO_TO_MODIFY=0 gives baseline 0xA0.
C1_WriteBaselineOneStore ==
    last.name = "write" =>
        /\ \A i \in 0 .. (RegSize - 1) :
              i \in last.w0.bits <=> BaselineBit(i, REG.RESET_VALUE)
        /\ last.w = RunClosure(last.f, last.w0)
        /\ mem = <<[op |-> "store", val |-> last.w.bits]>>
        /\ register = last.w.bits
        /\ (ExampleReg(REG) => ToNat(last.w0.bits) = 160)

C1_Witness ==
    /\ last.name = "write"
    /\ ExampleReg(REG)
    /\ ToNat(last.w0.bits) = 160
    /\ Len(last.f) = 1
    /\ last.w # last.w0
    /\ mem = <<[op |-> "store", val |-> last.w.bits]>>

\* C2: modify(f) performs one load and then one store: f is given a reader holding
\* the loaded word and a writer seeded with (current & ~ONE_TO_MODIFY) |
\* ZERO_TO_MODIFY, and the stored word is the one f returns; current=0x3C,
\* ONE_TO_MODIFY=0x0F, ZERO_TO_MODIFY=0 gives baseline 0x30.
C2_ModifyLoadThenStore ==
    /\ pc = "modify" =>
        /\ mem = <<[op |-> "load", val |-> R_bits(cur.r)]>>
        /\ (last.name # "hw" => R_bits(cur.r) = register)
        /\ \A i \in 0 .. (RegSize - 1) :
              i \in cur.w0.bits <=> BaselineBit(i, R_bits(cur.r))
    /\ last.name = "modify" =>
        /\ mem = <<[op |-> "load", val |-> R_bits(last.r)],
                   [op |-> "store", val |-> last.w.bits]>>
        /\ \A i \in 0 .. (RegSize - 1) :
              i \in last.w0.bits <=> BaselineBit(i, R_bits(last.r))
        /\ last.w = RunClosure(last.f, last.w0)
        /\ register = last.w.bits
        /\ (ExampleReg(REG) /\ ToNat(R_bits(last.r)) = 60 => ToNat(last.w0.bits) = 48)

C2_Witness ==
    /\ last.name = "modify"
    /\ ExampleReg(REG)
    /\ ToNat(R_bits(last.r)) = 60
    /\ ToNat(last.w0.bits) = 48
    /\ Len(mem) = 2
    /\ mem[1].op = "load"
    /\ mem[2].op = "store"
    /\ last.w # last.w0

\* C3: reset() performs exactly one store, of RESET_VALUE, and no load, whatever the
\* register holds and whatever the bitmaps are.
C3_ResetOneStore ==
    last.name = "reset" =>
        /\ mem = <<[op |-> "store", val |-> REG.RESET_VALUE]>>
        /\ register = REG.RESET_VALUE

C3_Witness ==
    /\ last.name = "reset"
    /\ REG.ONE_TO_MODIFY_FIELDS_BITMAP \cap REG.RESET_VALUE # {}
    /\ REG.ZERO_TO_MODIFY_FIELDS_BITMAP \ REG.RESET_VALUE # {}
    /\ register = REG.RESET_VALUE
    /\ mem = <<[op |-> "store", val |-> REG.RESET_VALUE]>>

\* C4: read() performs exactly one load and no store, and the reader's bits() is the
\* value the register holds at that load, never one seen by an earlier call.
C4_ReadIsFresh ==
    last.name = "read" =>
        /\ mem = <<[op |-> "load", val |-> register]>>
        /\ R_bits(last.r) = register

C4_Witness ==
    /\ last.name = "read"
    /\ prev.name = "hw"
    /\ register # REG.RESET_VALUE
    /\ R_bits(last.r) = register
    /\ mem = <<[op |-> "load", val |-> register]>>

ModifyKinds == {"FieldWriter", "FieldWriterSafe", "BitWriter"}

\* C8: after write(|w| w.field().variant(V)) on a register that stores what is
\* written, the next read() returns a word whose field bits equal V, for every
\* Modify-kind field, RESET_VALUE and bitmaps.
C8_WriteVariantReadBack ==
    (/\ last.name = "read"
     /\ prev.name = "write"
     /\ Len(prev.f) = 1
     /\ prev.f[1].name = "variant"
     /\ prev.f[1].f.kind \in ModifyKinds) =>
        LET s == prev.f[1]
        IN  IF s.f.kind = "BitWriter"
            THEN (s.f.OF \in R_bits(last.r)) <=> s.arg
            ELSE \A j \in 0 .. (s.f.WI - 1) : (j + s.f.OF) \in R_bits(last.r) <=> j \in s.arg

C8_Witness ==
    /\ last.name = "read"
    /\ prev.name = "write"
    /\ Len(prev.f) = 1
    /\ prev.f[1].name = "variant"
    /\ prev.f[1].f.kind = "FieldWriterSafe"
    /\ prev.f[1].arg = {0}
    /\ prev.w0.bits \cap Shl(mask(RegSize, prev.f[1].f.WI), prev.f[1].f.OF, RegSize)
          = Shl(mask(RegSize, prev.f[1].f.WI), prev.f[1].f.OF, RegSize)
    /\ R_bits(last.r) \cap Shl(mask(RegSize, prev.f[1].f.WI), prev.f[1].f.OF, RegSize)
          = Shl({0}, prev.f[1].f.OF, RegSize)

----------------------------------------------------------------------------
(* Properties of mask::<WI>() (SpecMask).                                  *)

\* x - 1 modulo 2^size, on a word
WrapPred(x, size) ==
    IF x = {} THEN MAX(size)
    ELSE LET k == CHOOSE i \in x : \A j \in x : i <= j
         IN  (x \ {k}) \cup (0 .. (k - 1))

\* C6: for every register width w in {8,16,32,64} and every WI in 1..w, mask::<WI>()
\* is (2^WI - 1) modulo 2^w: the low WI bits set, all ones when WI = w.
C6_MaskIsLowBits ==
    mk.done =>
        /\ mk.result = WrapPred(IF mk.WI < mk.size THEN {mk.WI} ELSE {}, mk.size)
        /\ \A i \in 0 .. (mk.size - 1) : i \in mk.result <=> i < mk.WI
        /\ (mk.WI <= 30 => ToNat(mk.result) = (2 ^ mk.WI) - 1)
        /\ (mk.WI = mk.size => mk.result = MAX(mk.size))

C6_Witness ==
    /\ mk.done
    /\ mk.size = 64
    /\ mk.WI = 64
    /\ Cardinality(mk.result) = 64

----------------------------------------------------------------------------
(* Properties of the field writer proxies (SpecField).                     *)

\* C5: bits(value) of a multi-bit writer of width WI at offset OF turns the working
\* word into (working & ~(mask(WI) << OF)) | ((value & mask(WI)) << OF): the bits
\* outside [OF, OF+WI) are unchanged and the value is truncated to WI bits.
C5_BitsSplices ==
    (fld.kind \in FieldKinds /\ fop.name = "bits") =>
        \A i \in 0 .. (fld.size - 1) :
            i \in wbits <=> IF fld.OF <= i /\ i < fld.OF + fld.WI
                            THEN (i - fld.OF) \in fop.arg
                            ELSE i \in wpre

C5_Witness ==
    /\ fld.kind = "FieldWriter"
    /\ fop.name = "bits"
    /\ fld.OF > 0
    /\ fld.OF + fld.WI < fld.size
    /\ ~(fop.arg \subseteq MAX(fld.WI))
    /\ wpre = MAX(fld.size)
    /\ wbits # wpre
    /\ wbits \cap {fld.OF + fld.WI} # {}

\* C7: for every width, every (WI, OF) with OF + WI <= w and every v < 2^WI, writing
\* v with the multi-bit writer into a zero word and extracting (word >> OF) &
\* mask(WI) yields v.
C7_SpliceThenExtract ==
    (/\ fld.kind \in FieldKinds
     /\ fop.name = "bits"
     /\ wpre = Zero
     /\ fop.arg \subseteq MAX(fld.WI)) =>
        {i - fld.OF : i \in {j \in wbits : j >= fld.OF /\ j - fld.OF < fld.WI}} = fop.arg

C7_Witness ==
    /\ fld.kind = "FieldWriter"
    /\ fld.size = 16
    /\ fop.name = "bits"
    /\ wpre = Zero
    /\ fld.OF = 8
    /\ fld.WI = 8
    /\ fop.arg = MAX(8)
    /\ wbits = 8 .. 15

\* C9: applying variant(V) of one field twice in a row gives the same word as
\* applying it once, for multi-bit and single-bit writers.
C9_VariantIdempotent ==
    (fop.name = "variant" /\ rep = 2) => wbits = wpre

C9_Witness ==
    /\ fop.name = "variant"
    /\ rep = 2
    /\ fld.kind = "FieldWriter"
    /\ fld.WI = 3
    /\ fop.arg = {1}
    /\ wbits = wpre
    /\ wbits \cap Shl(MAX(3), fld.OF, fld.size) = Shl({1}, fld.OF, fld.size)

OneKinds == {"BitWriter1S", "BitWriter1C", "BitWriter1T"}
ZeroKinds == {"BitWriter0C", "BitWriter0S", "BitWriter0T"}

\* C10 as stated: only a Modify-kind bit writer offers bit(v) / variant(v); a 1S, 1C or
\* 1T writer has no operation that can leave its bit 0, and a 0C, 0S or 0T writer has
\* no operation that can leave its bit 1.
C10_OnlyListedOperations ==
    /\ (fld.kind \in BitKinds /\ fop.name \in {"bit", "variant"}) => fld.kind = "BitWriter"
    /\ (fld.kind \in OneKinds /\ fop.name # "none") => fld.OF \in wbits
    /\ (fld.kind \in ZeroKinds /\ fop.name # "none") => fld.OF \notin wbits

\* C10 amended: every bit writer kind offers bit(v) and variant(v), which leave the
\* bit equal to v, besides its named operations; the named operations are the listed
\* ones, those of a 1S, 1C or 1T writer leave the bit 1 and those of a 0C, 0S or 0T
\* writer leave it 0.
C10_NamedOperationsRestricted ==
    fld.kind \in BitKinds /\ fop.name # "none" =>
        /\ fop.name \in {"bit", "variant"} \cup
              (CASE fld.kind = "BitWriter" -> {"set_bit", "clear_bit"}
                 [] fld.kind = "BitWriter1S" -> {"set_bit"}
                 [] fld.kind = "BitWriter0C" -> {"clear_bit"}
                 [] fld.kind = "BitWriter1C" -> {"clear_bit_by_one"}
                 [] fld.kind = "BitWriter0S" -> {"set_bit_by_zero"}
                 [] fld.kind \in {"BitWriter1T", "BitWriter0T"} -> {"toggle_bit"})
        /\ fop.name \in {"bit", "variant"} => (fld.OF \in wbits <=> fop.arg)
        /\ (fld.kind \in OneKinds /\ fop.name \notin {"bit", "variant"}) => fld.OF \in wbits
        /\ (fld.kind \in ZeroKinds /\ fop.name \notin {"bit", "variant"})
              => fld.OF \notin wbits

C10_Witness ==
    /\ fld.kind = "BitWriter1S"
    /\ fop.name = "bit"
    /\ fop.arg = FALSE
    /\ fld.OF \in wpre
    /\ fld.OF \notin wbits

\* C11: on a single-bit writer at offset OF, set_bit (BitWriter, 1S), clear_bit_by_one
\* (1C) and toggle_bit (1T) make bit OF 1; clear_bit (BitWriter, 0C), set_bit_by_zero
\* (0S) and toggle_bit (0T) make it 0; bit(v) makes it v; each of them leaves every
\* other bit of the word as it was.
C11_BitOperationsFrame ==
    fld.kind \in BitKinds /\ fop.name # "none" =>
        /\ \A i \in MAX(fld.size) \ {fld.OF} : i \in wbits <=> i \in wpre
        /\ wbits \subseteq MAX(fld.size)
        /\ fop.name = "bit" => (fld.OF \in wbits <=> fop.arg)
        /\ (fop.name = "set_bit" /\ fld.kind \in {"BitWriter", "BitWriter1S"})
              => fld.OF \in wbits
        /\ (fop.name = "clear_bit_by_one" /\ fld.kind = "BitWriter1C") => fld.OF \in wbits
        /\ (fop.name = "toggle_bit" /\ fld.kind = "BitWriter1T") => fld.OF \in wbits
        /\ (fop.name = "clear_bit" /\ fld.kind \in {"BitWriter", "BitWriter0C"})
              => fld.OF \notin wbits
        /\ (fop.name = "set_bit_by_zero" /\ fld.kind = "BitWriter0S") => fld.OF \notin wbits
        /\ (fop.name = "toggle_bit" /\ fld.kind = "BitWriter0T") => fld.OF \notin wbits

C11_Witness ==
    /\ fld.kind = "BitWriter1T"
    /\ fld.size = 32
    /\ fld.OF = 8
    /\ fop.name = "toggle_bit"
    /\ rep = 2
    /\ wpre = {i \in MAX(32) : (i % 8) \in {0, 2, 5, 7}} \cup {8}
    /\ wbits = wpre

----------------------------------------------------------------------------
(* The bits a closure leaves alone (Spec).                                 *)

\* The bits of the word the calls of closure f write: those of the fields it names.
WrittenBits(f) ==
    UNION {Shl(mask(RegSize, f[k].f.WI), f[k].f.OF, RegSize) : k \in 1 .. Len(f)}

\* C12: after modify(f), every bit f does not write and that lies outside
\* ONE_TO_MODIFY | ZERO_TO_MODIFY is stored with the value it had at modify's load;
\* every unwritten bit in ZERO_TO_MODIFY is stored as 1 and every unwritten bit in
\* ONE_TO_MODIFY (and not in ZERO_TO_MODIFY) is stored as 0.
C12_ModifyKeepsUnwritten ==
    last.name = "modify" =>
        /\ register = last.w.bits
        /\ mem[2] = Store(last.w.bits)
        /\ \A i \in MAX(RegSize) \ WrittenBits(last.f) :
              IF i \in REG.ZERO_TO_MODIFY_FIELDS_BITMAP THEN i \in last.w.bits
              ELSE IF i \in REG.ONE_TO_MODIFY_FIELDS_BITMAP THEN i \notin last.w.bits
              ELSE i \in last.w.bits <=> i \in mem[1].val

C12_Witness ==
    /\ last.name = "modify"
    /\ REG.ONE_TO_MODIFY_FIELDS_BITMAP = ToWord(15, RegSize)
    /\ REG.ZERO_TO_MODIFY_FIELDS_BITMAP = ToWord(3, RegSize)
    /\ mem[1] = Load(ToWord(60, RegSize))
    /\ WrittenBits(last.f) = ToWord(240, RegSize)
    /\ last.f[1].arg = Zero
    /\ register = ToWord(3, RegSize)

----------------------------------------------------------------------------
(* access_of (src/util.rs): the access mode of a register, from its own    *)
(* properties or from its fields.  An Option<Access> is a mode or "None";  *)
(* a field is represented by its access, the only part access_of reads.    *)

Access == {"ReadOnly", "ReadWrite", "ReadWriteOnce", "WriteOnce", "WriteOnly"}
OptAccess == Access \cup {"None"}

\* Longest field list given to access_of.
MaxFields == 3

\* Option<&[Field]>: None, or Some(list)
FieldLists ==
    {[some |-> FALSE, list |-> <<>>]}
    \cup {[some |-> TRUE, list |-> l] :
            l \in UNION {[1 .. k -> OptAccess] : k \in 0 .. MaxFields}}

\* fields.iter().all(|f| f.access == Some(m)) for m in modes
all(list, modes) == \A k \in 1 .. Len(list) : list[k] \in modes

access_of_strict(access, fields) ==
    IF access # "None" THEN access
    ELSE IF fields.some
         THEN IF all(fields.list, {"ReadOnly"}) THEN "ReadOnly"
              ELSE IF all(fields.list, {"WriteOnce"}) THEN "WriteOnce"
              ELSE IF all(fields.list, {"ReadWriteOnce"}) THEN "ReadWriteOnce"
              ELSE IF all(fields.list, {"WriteOnly"}) THEN "WriteOnly"
              ELSE "ReadWrite"
         ELSE "ReadWrite"

\* access_of(properties, fields), properties.access given as `access`
access_of(access, fields) ==
    IF access # "None" THEN access
    ELSE IF fields.some
         THEN IF all(fields.list, {"ReadOnly"}) THEN "ReadOnly"
              ELSE IF all(fields.list, {"WriteOnce"}) THEN "WriteOnce"
              ELSE IF all(fields.list, {"ReadWriteOnce"}) THEN "ReadWriteOnce"
              ELSE IF all(fields.list, {"WriteOnly", "WriteOnce"}) THEN "WriteOnly"
              ELSE "ReadWrite"
         ELSE "ReadWrite"

AccessInit ==
    /\ acs \in {[access |-> a, fields |-> f, ret |-> "none"] :
                  a \in OptAccess, f \in FieldLists}
    /\ acc = AccessorIdle /\ arr = ArrayIdle /\ nm = NameIdle /\ ut = UtIdle

\* The call access_of(&properties, fields)
CallAccessOf ==
    /\ acs.ret = "none"
    /\ acs' = [acs EXCEPT !.ret = access_of(acs.access, acs.fields)]

AccessSpecInit == AccessInit /\ LayerIdle

AccessNext ==
    CallAccessOf /\ UNCHANGED <<REG, register, pc, cur, last, prev, mem, mk>>
                 /\ UNCHANGED <<fld, wbits, wpre, fop, rep, acc, arr, nm, ut>>

SpecAccess == AccessSpecInit /\ [][AccessNext]_vars

\* The access modes the fields of a list have; "None" for a field without one.
ModesOf(list) == {list[k] : k \in 1 .. Len(list)}

\* C18 as stated: access_of returns the register's explicit access when one is given;
\* otherwise, when every field has the same access mode it returns that mode, and
\* whenever the fields do not all share one mode, a mix of write-only and write-once
\* fields and fields with no access given included, it returns ReadWrite.
C18_DisagreementIsReadWrite ==
    acs.ret # "none" =>
        IF acs.access # "None" THEN acs.ret = acs.access
        ELSE IF ~acs.fields.some THEN acs.ret = "ReadWrite"
        ELSE LET modes == ModesOf(acs.fields.list)
             IN  /\ (Cardinality(modes) = 1 /\ modes \subseteq Access)
                       => acs.ret \in modes
                 /\ (Cardinality(modes) > 1 \/ "None" \in modes)
                       => acs.ret = "ReadWrite"

\* C18 amended: the explicit access when given; otherwise ReadWrite without a field
\* list; with a list whose fields all have one mode, that mode; WriteOnly for a mix of
\* write-only and write-once fields; ReadWrite for every other disagreement and
\* whenever a field has no access given; ReadOnly for an empty field list.
C18_AccessOfCases ==
    acs.ret # "none" =>
        IF acs.access # "None" THEN acs.ret = acs.access
        ELSE IF ~acs.fields.some THEN acs.ret = "ReadWrite"
        ELSE LET modes == ModesOf(acs.fields.list)
             IN  IF modes = {} THEN acs.ret = "ReadOnly"
                 ELSE IF Cardinality(modes) = 1 /\ modes \subseteq Access
                      THEN acs.ret \in modes
                 ELSE IF modes = {"WriteOnly", "WriteOnce"} THEN acs.ret = "WriteOnly"
                 ELSE acs.ret = "ReadWrite"

C18_Witness ==
    /\ acs.access = "None"
    /\ acs.fields = [some |-> TRUE, list |-> <<"WriteOnly", "WriteOnce", "WriteOnly">>]
    /\ acs.ret = "WriteOnly"

----------------------------------------------------------------------------
(* Accessor::raw and Accessor::raw_if (src/generate/peripheral/accessor.rs). *)
(* An accessor is a record: its variant in `tag`, and the variant's fields.  *)

RegAccessor(doc, name, ty, offset) ==
    [tag |-> "Reg", doc |-> doc, name |-> name, ty |-> ty, offset |-> offset]
RawRegAccessor(doc, name, ty, offset) ==
    [tag |-> "RawReg", doc |-> doc, name |-> name, ty |-> ty, offset |-> offset]
ArrayAccessor(doc, name, ty, offset, dim, increment) ==
    [tag |-> "Array", doc |-> doc, name |-> name, ty |-> ty, offset |-> offset,
     dim |-> dim, increment |-> increment]
RawArrayAccessor(doc, name, ty, offset, dim, increment) ==
    [tag |-> "RawArray", doc |-> doc, name |-> name, ty |-> ty, offset |-> offset,
     dim |-> dim, increment |-> increment]
ArrayElemAccessor(doc, name, ty, basename, i) ==
    [tag |-> "ArrayElem", doc |-> doc, name |-> name, ty |-> ty,
     basename |-> basename, i |-> i]

Accessors ==
    LET Docs == {"Control register", "Data register %s"}
        Names == {"cr", "dr"}
        Offsets == {0, 16}
    IN  {RegAccessor(d, n, "CR", o) : d \in Docs, n \in Names, o \in Offsets}
        \cup {RawRegAccessor(d, n, "CR", o) : d \in Docs, n \in Names, o \in Offsets}
        \cup {ArrayAccessor(d, n, "DR", o, dm, inc) :
                d \in Docs, n \in Names, o \in Offsets, dm \in {1, 4}, inc \in {4, 8}}
        \cup {RawArrayAccessor(d, n, "DR", o, dm, inc) :
                d \in Docs, n \in Names, o \in Offsets, dm \in {1, 4}, inc \in {4, 8}}
        \cup {ArrayElemAccessor(d, n, "DR", "dr", i) :
                d \in Docs, n \in {"dr0", "dr3"}, i \in {0, 3}}

raw_swapped(a) ==
    CASE a.tag \in {"RawReg", "RawArray", "ArrayElem"} -> a
      [] a.tag = "Reg" -> RawRegAccessor(a.doc, a.name, a.ty, a.offset)
      [] a.tag = "Array" ->
            RawArrayAccessor(a.doc, a.name, a.ty, a.offset, a.increment, a.dim)

\* Accessor::raw
raw(a) ==
    CASE a.tag \in {"RawReg", "RawArray", "ArrayElem"} -> a
      [] a.tag = "Reg" -> RawRegAccessor(a.doc, a.name, a.ty, a.offset)
      [] a.tag = "Array" ->
            RawArrayAccessor(a.doc, a.name, a.ty, a.offset, a.dim, a.increment)

\* Accessor::raw_if
raw_if(a, flag) == IF flag THEN raw(a) ELSE a

\* Most calls of raw_if chained on one accessor.
MaxCalls == 2

AccessorInit ==
    /\ acc \in {[a |-> a, flags |-> <<>>, out |-> <<>>] : a \in Accessors}
    /\ acs = AccessIdle /\ arr = ArrayIdle /\ nm = NameIdle /\ ut = UtIdle

\* The accessor the next call is made on: the given one, or the last result.
Receiver(k) == IF k = 1 THEN acc.a ELSE acc.out[k - 1]

\* The call .raw_if(flag) on the accessor, or on the result of the call before.
CallRawIf(flag) ==
    /\ Len(acc.out) < MaxCalls
    /\ acc' = [acc EXCEPT !.flags = Append(@, flag),
                          !.out = Append(@, raw_if(Receiver(Len(acc.out) + 1), flag))]

RawIfTrue == CallRawIf(TRUE)
RawIfFalse == CallRawIf(FALSE)

AccessorSpecInit == AccessorInit /\ LayerIdle

AccessorNext ==
    \/ (RawIfTrue /\ UNCHANGED <<REG, register, pc, cur, last, prev, mem, mk, fld, wbits,
                                 wpre, fop, rep, acs, arr, nm, ut>>)
    \/ (RawIfFalse /\ UNCHANGED <<REG, register, pc, cur, last, prev, mem, mk, fld, wbits,
                                  wpre, fop, rep, acs, arr, nm, ut>>)

SpecAccessor == AccessorSpecInit /\ [][AccessorNext]_vars

\* C19: raw_if(true) is idempotent and raw_if(false) is the identity; raw_if(true)
\* turns Reg into RawReg and Array into RawArray keeping doc, name, type, offset (and
\* dim, increment), leaves RawReg, RawArray and ArrayElem unchanged, and its result is
\* never a Reg or an Array.
C19_RawIf ==
    \A k \in 1 .. Len(acc.out) :
        LET x == Receiver(k)
            y == acc.out[k]
        IN  IF ~acc.flags[k] THEN y = x
            ELSE /\ y.tag \notin {"Reg", "Array"}
                 /\ x.tag \in {"RawReg", "RawArray", "ArrayElem"} => y = x
                 /\ x.tag = "Reg" =>
                       /\ y.tag = "RawReg"
                       /\ <<y.doc, y.name, y.ty, y.offset>>
                              = <<x.doc, x.name, x.ty, x.offset>>
                 /\ x.tag = "Array" =>
                       /\ y.tag = "RawArray"
                       /\ <<y.doc, y.name, y.ty, y.offset, y.dim, y.increment>>
                              = <<x.doc, x.name, x.ty, x.offset, x.dim, x.increment>>
                 /\ (k > 1 /\ acc.flags[k - 1]) => y = x

C19_Witness ==
    /\ acc.flags = <<TRUE, TRUE>>
    /\ acc.a = ArrayAccessor("Data register %s", "dr", "DR", 16, 4, 8)
    /\ acc.out[1] = RawArrayAccessor("Data register %s", "dr", "DR", 16, 4, 8)
    /\ acc.out[2] = acc.out[1]

----------------------------------------------------------------------------
(* The accessor emitted for a RawArrayAccessor (accessor.rs, ToTokens):     *)
(*     pub const fn name(&self, n: usize) -> ty {                           *)
(*         [(); dim][n];                                                    *)
(*         ty::new(self.addr + offset + increment * n)                      *)
(*     }                                                                    *)
(* arr.at is the position in the body: "call" on entry, "cast" after the    *)
(* index expression, "return" with the address in arr.ret, or "panic".      *)

\* Largest dim of an emitted array accessor; indices run a little past it.
MaxDim == 4
MaxIters == 2

index_inclusive(dim, n) == n <= dim

\* [(); dim][n]: whether indexing the array of dim units with n succeeds
index(dim, n) == n < dim

\* cast: self.addr + offset + increment * n
cast(addr, offset, increment, n) == addr + offset + increment * n

ArrayInit ==
    /\ arr \in {[addr |-> a, offset |-> o, dim |-> dm, increment |-> inc, n |-> n,
                 at |-> "call", ret |-> 0, calls |-> 0, pos |-> 0, items |-> <<>>,
                 ended |-> FALSE] :
                  a \in {1073741824, 4096}, o \in {16, 0}, dm \in 1 .. MaxDim,
                  inc \in {4, 1024}, n \in 0 .. (MaxDim + 2)}
    /\ acs = AccessIdle /\ acc = AccessorIdle /\ nm = NameIdle /\ ut = UtIdle

\* The statement [(); dim][n]; an index out of range panics
IndexCheck ==
    /\ arr.at = "call"
    /\ arr' = [arr EXCEPT !.at = IF index(arr.dim, arr.n) THEN "cast" ELSE "panic"]

\* The tail expression ty::new(cast), returned
Cast ==
    /\ arr.at = "cast"
    /\ arr' = [arr EXCEPT !.at = "return",
                          !.ret = cast(arr.addr, arr.offset, arr.increment, arr.n)]

\* Range::next of 0..dim at position pos: an item is left while pos < dim
range_next_inclusive(pos, dim) == pos <= dim

range_next(pos, dim) == pos < dim

\* name_iter(&self): a new iterator (0..dim).map(move |n| cast), at position 0;
\* arr.calls counts the iterators made, arr.items the items of the latest one
NameIter ==
    /\ arr.calls < MaxIters
    /\ arr' = [arr EXCEPT !.calls = arr.calls + 1, !.pos = 0, !.items = <<>>,
                          !.ended = FALSE]

\* Iterator::next on the latest iterator: Some(cast) for n = pos, or None
IterNext ==
    /\ arr.calls > 0
    /\ arr' = IF range_next(arr.pos, arr.dim)
              THEN [arr EXCEPT !.pos = arr.pos + 1,
                               !.items = Append(arr.items,
                                   cast(arr.addr, arr.offset, arr.increment, arr.pos))]
              ELSE [arr EXCEPT !.ended = TRUE]

ArraySpecInit == ArrayInit /\ LayerIdle

ArrayNext ==
    \/ (IndexCheck /\ UNCHANGED <<REG, register, pc, cur, last, prev, mem, mk, fld, wbits,
                                  wpre, fop, rep, acs, acc, nm, ut>>)
    \/ (Cast /\ UNCHANGED <<REG, register, pc, cur, last, prev, mem, mk, fld, wbits,
                            wpre, fop, rep, acs, acc, nm, ut>>)
    \/ (NameIter /\ UNCHANGED <<REG, register, pc, cur, last, prev, mem, mk, fld, wbits,
                                wpre, fop, rep, acs, acc, nm, ut>>)
    \/ (IterNext /\ UNCHANGED <<REG, register, pc, cur, last, prev, mem, mk, fld, wbits,
                                wpre, fop, rep, acs, acc, nm, ut>>)

SpecArray == ArraySpecInit /\ [][ArrayNext]_vars

\* C20: the emitted raw-array accessor checks the index before it computes the
\* address: for every n < N it returns base + offset + S*n (base = 0x40000000, offset =
\* 0x10, N = 4, S = 4 gives 0x40000010, 0x40000014, 0x40000018, 0x4000001C), and for
\* every n >= N it fails with an out-of-range error and never returns an address.
C20_IndexCheckedFirst ==
    /\ arr.at \in {"cast", "return"} => arr.n < arr.dim
    /\ arr.at = "panic" => arr.n >= arr.dim
    /\ arr.at = "return" => arr.ret = arr.addr + arr.offset + arr.increment * arr.n
    /\ (arr.at = "return" /\ arr.addr = 1073741824 /\ arr.offset = 16
           /\ arr.dim = 4 /\ arr.increment = 4)
          => arr.ret = (CASE arr.n = 0 -> 1073741840
                          [] arr.n = 1 -> 1073741844
                          [] arr.n = 2 -> 1073741848
                          [] arr.n = 3 -> 1073741852)

C20_Witness ==
    /\ arr.at = "panic"
    /\ arr.addr = 1073741824
    /\ arr.offset = 16
    /\ arr.dim = 4
    /\ arr.increment = 4
    /\ arr.n = 4

\* C24: the emitted raw-array iterator for dimension N yields exactly N items and then
\* ends; its k-th item (k = 0 .. N-1, ascending) is the register at base + offset + S*k,
\* the address the indexed accessor returns for n = k; every call of the iterator
\* method starts again from index 0.
C24_IteratorItems ==
    /\ arr.pos = Len(arr.items)
    /\ Len(arr.items) <= arr.dim
    /\ arr.ended => Len(arr.items) = arr.dim
    /\ \A k \in 1 .. Len(arr.items) :
           arr.items[k] = arr.addr + arr.offset + arr.increment * (k - 1)
    /\ (arr.at = "return" /\ arr.n < Len(arr.items)) => arr.items[arr.n + 1] = arr.ret
    /\ (arr.calls = 0) => (arr.items = <<>> /\ ~arr.ended)

\* The second iterator of a four-element array has ended after its four items, while
\* the indexed accessor has returned element 2
C24_Witness ==
    /\ arr.calls = 2
    /\ arr.ended
    /\ arr.addr = 1073741824 /\ arr.offset = 16 /\ arr.dim = 4 /\ arr.increment = 4
    /\ arr.items = <<1073741840, 1073741844, 1073741848, 1073741852>>
    /\ arr.at = "return" /\ arr.n = 2 /\ arr.ret = 1073741848

----------------------------------------------------------------------------
(* Names (src/util.rs).  A string is the sequence of its characters, each   *)
(* a one-character string.  Case conversion is that of the convert_case     *)
(* crate, which util.rs calls through Casing::to_case and Casing::is_case:  *)
(* the name is split into words at '_', '-' and ' ' (which are dropped) and *)
(* at the boundaries lower|upper, letter|digit, digit|letter and            *)
(* upper|upper-lower; empty words are dropped; the words are recased and    *)
(* joined with the delimiter of the case.                                  *)

LowerChars ==
    <<"a", "b", "c", "d", "e", "f", "g", "h", "i", "j", "k", "l", "m", "n", "o", "p", "q", "r", "s", "t", "u", "v", "w", "x", "y", "z">>
UpperChars ==
    <<"A", "B", "C", "D", "E", "F", "G", "H", "I", "J", "K", "L", "M", "N", "O", "P", "Q", "R", "S", "T", "U", "V", "W", "X", "Y", "Z">>
Digits == {"0", "1", "2", "3", "4", "5", "6", "7", "8", "9"}

is_lowercase(c) == \E k \in 1 .. Len(LowerChars) : LowerChars[k] = c
is_uppercase(c) == \E k \in 1 .. Len(UpperChars) : UpperChars[k] = c
is_digit(c) == c \in Digits

to_uppercase(c) ==
    IF is_lowercase(c)
    THEN UpperChars[CHOOSE k \in 1 .. Len(LowerChars) : LowerChars[k] = c]
    ELSE c
to_lowercase(c) ==
    IF is_uppercase(c)
    THEN LowerChars[CHOOSE k \in 1 .. Len(UpperChars) : UpperChars[k] = c]
    ELSE c

\* Boundary::Underscore, Boundary::Hyphen, Boundary::Space
Delimiters == {"_", "-", " "}

\* A word ends between s[k] and s[k + 1]: Boundary::LowerUpper, UpperDigit,
\* DigitUpper, DigitLower, LowerDigit, and Acronym (upper, upper, lower).
BoundaryAfter(s, k) ==
    /\ k < Len(s)
    /\ \/ is_lowercase(s[k]) /\ is_uppercase(s[k + 1])
       \/ is_uppercase(s[k]) /\ is_digit(s[k + 1])
       \/ is_digit(s[k]) /\ is_uppercase(s[k + 1])
       \/ is_digit(s[k]) /\ is_lowercase(s[k + 1])
       \/ is_lowercase(s[k]) /\ is_digit(s[k + 1])
       \/ /\ k + 1 < Len(s)
          /\ is_uppercase(s[k]) /\ is_uppercase(s[k + 1]) /\ is_lowercase(s[k + 2])

\* The words of s from position k on, `word` being the word begun before k.
RECURSIVE SplitFrom(_, _, _)
SplitFrom(s, k, word) ==
    LET flush == IF word = <<>> THEN <<>> ELSE <<word>>
    IN  IF k > Len(s) THEN flush
        ELSE IF s[k] \in Delimiters THEN flush \o SplitFrom(s, k + 1, <<>>)
        ELSE IF BoundaryAfter(s, k)
             THEN <<Append(word, s[k])>> \o SplitFrom(s, k + 1, <<>>)
             ELSE SplitFrom(s, k + 1, Append(word, s[k]))

\* convert_case: split(s, &Boundary::defaults())
split(s) == SplitFrom(s, 1, <<>>)

\* Pattern::Lowercase, Pattern::Uppercase, Pattern::Capital on one word
Lowercase(w) == [k \in 1 .. Len(w) |-> to_lowercase(w[k])]
Uppercase(w) == [k \in 1 .. Len(w) |-> to_uppercase(w[k])]
Capital(w) ==
    [k \in 1 .. Len(w) |-> IF k = 1 THEN to_uppercase(w[k]) ELSE to_lowercase(w[k])]

\* words.join(delim)
RECURSIVE join(_, _)
join(words, delim) ==
    IF words = <<>> THEN <<>>
    ELSE IF Len(words) = 1 THEN words[1]
    ELSE words[1] \o delim \o join(Tail(words), delim)

\* convert_case::Case, the four that util.rs names
CCase == {"UpperSnake", "Upper", "Pascal", "Snake"}

\* Casing::to_case(ccase) on s
Casing_to_case(s, ccase) ==
    LET words == split(s)
    IN  CASE ccase = "UpperSnake" ->
                join([k \in 1 .. Len(words) |-> Uppercase(words[k])], <<"_">>)
          [] ccase = "Upper" ->
                join([k \in 1 .. Len(words) |-> Uppercase(words[k])], <<" ">>)
          [] ccase = "Pascal" ->
                join([k \in 1 .. Len(words) |-> Capital(words[k])], <<>>)
          [] ccase = "Snake" ->
                join([k \in 1 .. Len(words) |-> Lowercase(words[k])], <<"_">>)

\* Casing::is_case(ccase) on s: the conversion leaves s as it is
Casing_is_case(s, ccase) == Casing_to_case(s, ccase) = s

----------------------------------------------------------------------------
(* Case, NameConfig::sanitize and the ToSanitizedCase functions of str.     *)
(* A Cow<str> is [owned, s]: whether it is Cow::Owned, and the string.      *)

BLACKLIST_CHARS == {"(", ")", "[", "]", "/", " ", "-"}

Borrowed(s) == [owned |-> FALSE, s |-> s]
Owned(s) == [owned |-> TRUE, s |-> s]

Case == {"Constant", "Upper", "Pascal", "Snake", "Unchanged"}

CCaseOf_confused(case) ==
    CASE case = "Constant" -> "Upper"
      [] case = "Upper" -> "UpperSnake"
      [] case = "Pascal" -> "Pascal"
      [] case = "Snake" -> "Snake"

\* The convert_case case each test and conversion of Case::to_case names.
CCaseOf(case) ==
    CASE case = "Constant" -> "UpperSnake"
      [] case = "Upper" -> "Upper"
      [] case = "Pascal" -> "Pascal"
      [] case = "Snake" -> "Snake"

\* Case::to_case
Case_to_case(case, s) ==
    IF case = "Unchanged" THEN Borrowed(s)
    ELSE IF Casing_is_case(s, CCaseOf(case)) THEN Borrowed(s)
    ELSE Owned(Casing_to_case(s, CCaseOf(case)))

\* Case::cow_to_case: the Upper arm tests CCase::Snake, the others their own case
Case_cow_to_case(case, cow) ==
    IF case = "Unchanged" THEN cow
    ELSE IF ~cow.owned /\ Casing_is_case(cow.s, IF case = "Upper" THEN "Snake"
                                                ELSE CCaseOf(case))
         THEN cow
    ELSE Owned(Casing_to_case(cow.s, CCaseOf(case)))

\* NameConfig: [case, prefix, suffix]
NameConfig(case, prefix, suffix) == [case |-> case, prefix |-> prefix, suffix |-> suffix]

\* What a call gives: the string returned, or a panic.
Returned(str) == [panic |-> FALSE, s |-> str]
Panicked == [panic |-> TRUE, s |-> <<>>]

\* NameConfig::sanitize; s.as_bytes()[0] panics on the empty string
NameConfig_sanitize(self, s) ==
    LET cased == Case_to_case(self.case, s)
    IN  IF self.prefix = <<>>
        THEN IF s = <<>> THEN Panicked
             ELSE IF is_digit(s[1]) THEN Returned(<<"_">> \o cased.s \o self.suffix)
             ELSE IF self.suffix = <<>> THEN Returned(cased.s)
             ELSE Returned(cased.s \o self.suffix)
        ELSE Returned(self.prefix \o cased.s \o self.suffix)

\* self.contains(BLACKLIST_CHARS), self.replace(BLACKLIST_CHARS, "")
contains(s, chars) == \E k \in 1 .. Len(s) : s[k] \in chars
IsKept(c) == c \notin BLACKLIST_CHARS
replace(s) == SelectSeq(s, IsKept)

\* let s = if self.contains(BLACKLIST_CHARS) { Cow::Owned(..) } else { self.into() }
Stripped(s) == IF contains(s, BLACKLIST_CHARS) THEN Owned(replace(s)) ELSE Borrowed(s)

\* s.chars().next().unwrap_or('\0') is one of '0' ..= '9'
DigitLeading(s) == s # <<>> /\ is_digit(s[1])

\* to_sanitized_pascal_case, to_sanitized_constant_case
to_sanitized_case(case, self) ==
    LET s == Stripped(self)
    IN  IF DigitLeading(s.s) THEN <<"_">> \o Case_to_case(case, s.s).s
        ELSE Case_cow_to_case(case, s).s

to_sanitized_pascal_case(self) == to_sanitized_case("Pascal", self)
to_sanitized_constant_case(self) == to_sanitized_case("Constant", self)

INTERNALS == {<<"s", "e", "t", "_", "b", "i", "t">>,
              <<"c", "l", "e", "a", "r", "_", "b", "i", "t">>,
              <<"b", "i", "t">>, <<"b", "i", "t", "s">>}

to_sanitized_not_keyword_snake_case_bare(self) ==
    LET s == Stripped(self)
    IN  IF DigitLeading(s.s) THEN <<"_">> \o Case_to_case("Snake", s.s).s
        ELSE Case_cow_to_case("Snake", s).s

\* to_sanitized_not_keyword_snake_case
to_sanitized_not_keyword_snake_case(self) ==
    LET s == Stripped(self)
    IN  IF DigitLeading(s.s) THEN <<"_">> \o Case_to_case("Snake", s.s).s
        ELSE LET t == Case_cow_to_case("Snake", s).s
             IN  IF t \in INTERNALS THEN t \o <<"_">> ELSE t

KEYWORDS ==
    {<<"a", "b", "s", "t", "r", "a", "c", "t">>, <<"a", "l", "i", "g", "n", "o", "f">>,
     <<"a", "s">>, <<"a", "s", "y", "n", "c">>, <<"a", "w", "a", "i", "t">>,
     <<"b", "e", "c", "o", "m", "e">>, <<"b", "o", "x">>, <<"b", "r", "e", "a", "k">>,
     <<"c", "o", "n", "s", "t">>, <<"c", "o", "n", "t", "i", "n", "u", "e">>,
     <<"c", "r", "a", "t", "e">>, <<"d", "o">>, <<"d", "y", "n">>,
     <<"e", "l", "s", "e">>, <<"e", "n", "u", "m">>, <<"e", "x", "t", "e", "r", "n">>,
     <<"f", "a", "l", "s", "e">>, <<"f", "i", "n", "a", "l">>, <<"f", "n">>,
     <<"f", "o", "r">>, <<"i", "f">>, <<"i", "m", "p", "l">>, <<"i", "n">>,
     <<"l", "e", "t">>, <<"l", "o", "o", "p">>, <<"m", "a", "c", "r", "o">>,
     <<"m", "a", "t", "c", "h">>, <<"m", "o", "d">>, <<"m", "o", "v", "e">>,
     <<"m", "u", "t">>, <<"o", "f", "f", "s", "e", "t", "o", "f">>,
     <<"o", "v", "e", "r", "r", "i", "d", "e">>, <<"p", "r", "i", "v">>,
     <<"p", "r", "o", "c">>, <<"p", "u", "b">>, <<"p", "u", "r", "e">>,
     <<"r", "e", "f">>, <<"r", "e", "t", "u", "r", "n">>, <<"s", "e", "l", "f">>,
     <<"s", "i", "z", "e", "o", "f">>, <<"s", "t", "a", "t", "i", "c">>,
     <<"s", "t", "r", "u", "c", "t">>, <<"s", "u", "p", "e", "r">>,
     <<"t", "r", "a", "i", "t">>, <<"t", "r", "u", "e">>, <<"t", "r", "y">>,
     <<"t", "y", "p", "e">>, <<"t", "y", "p", "e", "o", "f">>,
     <<"u", "n", "s", "a", "f", "e">>, <<"u", "n", "s", "i", "z", "e", "d">>,
     <<"u", "s", "e">>, <<"v", "i", "r", "t", "u", "a", "l">>,
     <<"w", "h", "e", "r", "e">>, <<"w", "h", "i", "l", "e">>,
     <<"y", "i", "e", "l", "d">>}

\* sanitize_keyword
sanitize_keyword(sc) == IF sc \in KEYWORDS THEN sc \o <<"_">> ELSE sc

\* ToSanitizedCase::to_sanitized_snake_case
to_sanitized_snake_case(self) ==
    sanitize_keyword(to_sanitized_not_keyword_snake_case(self))

----------------------------------------------------------------------------
(* Calls of the sanitizers: on a raw name, and then on what the call before *)
(* returned.                                                               *)

\* The characters of the enumerated raw names: a lower-case and an upper-case letter,
\* a digit, the underscore, and two blacklisted characters.
Alphabet == {"a", "B", "1", "_", "-", "("}

\* Longest enumerated raw name.
MaxLen == 3

NameExamples ==
    {<<"s", "t", "a", "t", "i", "c">>,
     <<"S", "t", "a", "t", "i", "c">>,
     <<"S", "T", "A", "T", "I", "C">>,
     <<"b", "i", "t">>,
     <<"b", "i", "t", "s">>,
     <<"B", "I", "T">>,
     <<"s", "e", "t", "_", "b", "i", "t">>,
     <<"c", "l", "e", "a", "r", "_", "b", "i", "t">>,
     <<"S", "e", "t", "B", "i", "t">>,
     <<"f", "n">>,
     <<"t", "y", "p", "e">>,
     <<"m", "a", "t", "c", "h">>,
     <<"2", "_", "w", "i", "r", "e">>,
     <<"G", "P", "I", "O", "A">>,
     <<"g", "p", "i", "o", "_", "a">>,
     <<"G", "p", "i", "o", "A">>,
     <<"C", "R", "1">>,
     <<"c", "r", "1">>}

RawNames == UNION {[1 .. k -> Alphabet] : k \in 0 .. MaxLen} \cup NameExamples

NameConfigs ==
    {NameConfig(c, p, x) : c \in Case, p \in {<<>>, <<"P", "_">>}, x \in {<<>>, <<"_", "s">>}}

\* Most calls chained on one raw name.
MaxChain == 2

NameInit ==
    /\ nm \in {[s |-> s, fn |-> NoFn, out |-> <<>>] : s \in RawNames}
    /\ acs = AccessIdle /\ acc = AccessorIdle /\ arr = ArrayIdle /\ ut = UtIdle

\* The string the next call is made on.
Subject == IF nm.out = <<>> THEN nm.s ELSE nm.out[Len(nm.out)].s

\* One more call of fn, giving `result`; a chain is of one function and ends at a panic.
CallName(fn, result) ==
    /\ Len(nm.out) < MaxChain
    /\ nm.out = <<>> \/ (nm.fn = fn /\ ~nm.out[Len(nm.out)].panic)
    /\ nm' = [nm EXCEPT !.fn = fn, !.out = Append(@, result)]

Fn(name, case) == [name |-> name, case |-> case, prefix |-> <<>>, suffix |-> <<>>]

Sanitize ==
    \E self \in NameConfigs :
        CallName([name |-> "sanitize", case |-> self.case, prefix |-> self.prefix,
                  suffix |-> self.suffix],
                 NameConfig_sanitize(self, Subject))

ToSanitizedPascalCase ==
    CallName(Fn("to_sanitized_pascal_case", "Pascal"),
             Returned(to_sanitized_pascal_case(Subject)))

ToSanitizedConstantCase ==
    CallName(Fn("to_sanitized_constant_case", "Constant"),
             Returned(to_sanitized_constant_case(Subject)))

ToSanitizedSnakeCase ==
    CallName(Fn("to_sanitized_snake_case", "Snake"),
             Returned(to_sanitized_snake_case(Subject)))

ToCase ==
    \E case \in Case :
        CallName(Fn("to_case", case), Returned(Case_to_case(case, Subject).s))

CowToCase ==
    \E case \in Case :
        CallName(Fn("cow_to_case", case),
                 Returned(Case_cow_to_case(case, Borrowed(Subject)).s))

CowToCaseOwned ==
    \E case \in Case :
        CallName(Fn("cow_to_case_owned", case),
                 Returned(Case_cow_to_case(case, Owned(Subject)).s))

NameSpecInit == NameInit /\ LayerIdle

NameNext ==
    \/ (Sanitize /\ UNCHANGED <<REG, register, pc, cur, last, prev, mem, mk, fld, wbits,
                                wpre, fop, rep, acs, acc, arr, ut>>)
    \/ (ToSanitizedPascalCase
           /\ UNCHANGED <<REG, register, pc, cur, last, prev, mem, mk, fld, wbits,
                          wpre, fop, rep, acs, acc, arr, ut>>)
    \/ (ToSanitizedConstantCase
           /\ UNCHANGED <<REG, register, pc, cur, last, prev, mem, mk, fld, wbits,
                          wpre, fop, rep, acs, acc, arr, ut>>)
    \/ (ToSanitizedSnakeCase
           /\ UNCHANGED <<REG, register, pc, cur, last, prev, mem, mk, fld, wbits,
                          wpre, fop, rep, acs, acc, arr, ut>>)
    \/ (ToCase /\ UNCHANGED <<REG, register, pc, cur, last, prev, mem, mk, fld, wbits,
                              wpre, fop, rep, acs, acc, arr, ut>>)
    \/ (CowToCase /\ UNCHANGED <<REG, register, pc, cur, last, prev, mem, mk, fld, wbits,
                                 wpre, fop, rep, acs, acc, arr, ut>>)
    \/ (CowToCaseOwned
           /\ UNCHANGED <<REG, register, pc, cur, last, prev, mem, mk, fld, wbits,
                          wpre, fop, rep, acs, acc, arr, ut>>)

SpecName == NameSpecInit /\ [][NameNext]_vars

\* The raw name the k-th call of the chain was made on.
NameIn(k) == IF k = 1 THEN nm.s ELSE nm.out[k - 1].s

\* C14 as stated: name sanitization never fails: for every raw name, the empty
\* string and a name made only of blacklisted characters included, NameConfig::sanitize,
\* to_sanitized_pascal_case, to_sanitized_constant_case and to_sanitized_snake_case
\* return normally, with a non-empty identifier.
C14_SanitizeNeverFails ==
    (/\ Len(nm.out) = 1
     /\ nm.fn.name \in {"sanitize", "to_sanitized_pascal_case",
                        "to_sanitized_constant_case", "to_sanitized_snake_case"})
        => ~nm.out[1].panic /\ nm.out[1].s # <<>>

\* The snake-cased form of a raw name: the name without its blacklisted characters,
\* in snake case, behind a '_' when it starts with a digit.
SnakeForm(name) ==
    (IF DigitLeading(replace(name)) THEN <<"_">> ELSE <<>>)
        \o Casing_to_case(replace(name), "Snake")

\* C15: to_sanitized_snake_case never returns a name of the internal-method list
\* {set_bit, clear_bit, bit, bits} or of the reserved-word list: a name whose
\* snake-cased form is in either list is returned with exactly one trailing '_'
\* appended ("static" gives "static_", "bit" gives "bit_"), and every other name is
\* returned without an added '_' suffix.
C15_SnakeCaseEscapes ==
    nm.fn.name = "to_sanitized_snake_case" =>
        \A k \in 1 .. Len(nm.out) :
            LET form == SnakeForm(NameIn(k))
                ret == nm.out[k].s
            IN  /\ ~nm.out[k].panic
                /\ ret \notin (INTERNALS \cup KEYWORDS)
                /\ ret = IF form \in (INTERNALS \cup KEYWORDS) THEN form \o <<"_">>
                         ELSE form
                /\ NameIn(k) = <<"s", "t", "a", "t", "i", "c">>
                      => ret = <<"s", "t", "a", "t", "i", "c", "_">>
                /\ NameIn(k) = <<"b", "i", "t">> => ret = <<"b", "i", "t", "_">>

C15_Witness ==
    /\ nm.fn.name = "to_sanitized_snake_case"
    /\ nm.s = <<"S", "e", "t", "B", "i", "t">>
    /\ Len(nm.out) = 2
    /\ nm.out[1].s = <<"s", "e", "t", "_", "b", "i", "t", "_">>
    /\ nm.out[2].s = <<"s", "e", "t", "_", "b", "i", "t", "_">>

\* The name in the case of a NameConfig, as the convert_case conversion gives it.
Cased(case, name) ==
    CASE case = "Unchanged" -> name
      [] case = "Constant" -> Casing_to_case(name, "UpperSnake")
      [] case = "Upper" -> Casing_to_case(name, "Upper")
      [] case = "Pascal" -> Casing_to_case(name, "Pascal")
      [] case = "Snake" -> Casing_to_case(name, "Snake")

\* C16 as stated: in NameConfig::sanitize a configured (non-empty) prefix is always
\* prepended and supersedes digit-escaping: with a prefix the result is prefix + cased
\* name + suffix, with no '_' inserted even when the raw name starts with a decimal
\* digit; with no prefix and a digit-leading raw name it is '_' + cased name + suffix;
\* with no prefix and a non-digit-leading name it is cased name + suffix.
C16_PrefixSupersedesEscape ==
    nm.fn.name = "sanitize" =>
        \A k \in 1 .. Len(nm.out) :
            LET name == NameIn(k)
                cased == Cased(nm.fn.case, name)
            IN  nm.out[k] =
                    IF nm.fn.prefix # <<>>
                    THEN Returned(nm.fn.prefix \o cased \o nm.fn.suffix)
                    ELSE IF DigitLeading(name)
                         THEN Returned(<<"_">> \o cased \o nm.fn.suffix)
                    ELSE Returned(cased \o nm.fn.suffix)

\* A name already in the case, with no blacklisted character, no leading digit, and
\* that is neither a reserved word nor an internal name.
AlreadyCased(case, name) ==
    /\ Cased(case, name) = name
    /\ ~contains(name, BLACKLIST_CHARS)
    /\ ~DigitLeading(name)
    /\ name \notin (KEYWORDS \cup INTERNALS)

----------------------------------------------------------------------------
(* write_with_zero, and modify among other accessors (Spec).               *)

\* C23: write_with_zero(f) hands f a writer whose bits are all zero (neither
\* RESET_VALUE nor the ONE_TO_MODIFY / ZERO_TO_MODIFY bitmaps are applied), then
\* performs exactly one store, of the word f returns, and no load.
C23_WriteWithZeroOneStore ==
    last.name = "write_with_zero" =>
        /\ last.w0.bits = {}
        /\ last.w = RunClosure(last.f, last.w0)
        /\ mem = <<[op |-> "store", val |-> last.w.bits]>>
        /\ register = last.w.bits
        /\ \A i \in MAX(RegSize) \ WrittenBits(last.f) : i \notin register

C23_Witness ==
    /\ last.name = "write_with_zero"
    /\ REG.RESET_VALUE = ToWord(165, RegSize)
    /\ REG.ONE_TO_MODIFY_FIELDS_BITMAP = ToWord(15, RegSize)
    /\ REG.ZERO_TO_MODIFY_FIELDS_BITMAP = ToWord(3, RegSize)
    /\ Len(last.f) = 1
    /\ last.f[1].f.kind = "BitWriter1C"
    /\ register = ToWord(2, RegSize)
    /\ mem = <<[op |-> "store", val |-> ToWord(2, RegSize)]>>

\* The word a closure makes of the writer seeded from a loaded word.
FromLoad(f, loaded) ==
    RunClosure(f, W_new({i \in MAX(RegSize) : BaselineBit(i, loaded)})).bits

\* C27: a modify call computes its stored word only from the one value it loaded: when
\* another accessor stores to the register between modify's load and modify's store,
\* modify's store overwrites that value without merging it, and the register ends
\* holding the word derived from the earlier load; when no store lands in between, two
\* successive modify calls that write disjoint fields of a register with zero
\* modify-bitmaps both take effect.
C27_ModifyFromItsLoad ==
    last.name = "modify" =>
        /\ register = FromLoad(last.f, mem[1].val)
        /\ prev.name = "hw" =>
              \A i \in MAX(RegSize) \ WrittenBits(last.f) :
                  i \in register <=> BaselineBit(i, mem[1].val)
        /\ (/\ prev.name = "modify"
            /\ REG.ONE_TO_MODIFY_FIELDS_BITMAP = {}
            /\ REG.ZERO_TO_MODIFY_FIELDS_BITMAP = {}
            /\ WrittenBits(prev.f) \cap WrittenBits(last.f) = {})
              => /\ mem[1].val = prev.w.bits
                 /\ \A i \in WrittenBits(prev.f) : i \in register <=> i \in prev.w.bits
                 /\ \A i \in WrittenBits(last.f) :
                       i \in register <=> i \in FromLoad(last.f, {})
                 /\ \A i \in MAX(RegSize) \ WrittenBits(last.f) :
                       i \in register <=> i \in prev.w.bits

C27_Witness ==
    /\ last.name = "modify"
    /\ prev.name = "hw"
    /\ prev.w.bits = ToWord(60, RegSize)
    /\ mem[1] = Load(ToWord(165, RegSize))
    /\ REG.ONE_TO_MODIFY_FIELDS_BITMAP = {}
    /\ REG.ZERO_TO_MODIFY_FIELDS_BITMAP = {}
    /\ WrittenBits(last.f) = ToWord(240, RegSize)
    /\ last.f[1].arg = Zero
    /\ register = ToWord(5, RegSize)

\* C28 as stated: Case::cow_to_case and Case::to_case agree: for every Case (Constant,
\* Upper, Pascal, Snake, Unchanged) and every string s, cow_to_case applied to s,
\* borrowed or owned, returns the same text as to_case applied to s.
C28_CowToCaseAgrees ==
    nm.fn.name \in {"cow_to_case", "cow_to_case_owned"} =>
        \A k \in 1 .. Len(nm.out) :
            nm.out[k] = Returned(Case_to_case(nm.fn.case, NameIn(k)).s)

----------------------------------------------------------------------------
(* U32Ext for u32 (src/util.rs): the Rust type of a bit width.  A Result is *)
(* a record: st is "ok" with the value v, or "err"; "none" before the call. *)
MaxWidth == 70

OkOf(v) == [st |-> "ok", v |-> v]
ErrStr == [st |-> "err", v |-> ""]
ErrNum == [st |-> "err", v |-> 0]
NoStr == [st |-> "none", v |-> ""]
NoNum == [st |-> "none", v |-> 0]

\* u32::size_to_str
size_to_str(self) ==
    CASE self = 8 -> OkOf("u8")
      [] self = 16 -> OkOf("u16")
      [] self = 32 -> OkOf("u32")
      [] self = 64 -> OkOf("u64")
      [] OTHER -> ErrStr

\* u32::to_ty
to_ty(self) ==
    CASE self = 1 -> OkOf("bool")
      [] self \in 2 .. 8 -> OkOf("u8")
      [] self \in 9 .. 16 -> OkOf("u16")
      [] self \in 17 .. 32 -> OkOf("u32")
      [] self \in 33 .. 64 -> OkOf("u64")
      [] OTHER -> ErrStr

to_ty_width_narrow(self) ==
    CASE self = 1 -> OkOf(1)
      [] self \in 2 .. 8 -> OkOf(8)
      [] self \in 9 .. 16 -> OkOf(16)
      [] self \in 17 .. 64 -> OkOf(32)
      [] OTHER -> ErrNum

\* u32::to_ty_width
to_ty_width(self) ==
    CASE self = 1 -> OkOf(1)
      [] self \in 2 .. 8 -> OkOf(8)
      [] self \in 9 .. 16 -> OkOf(16)
      [] self \in 17 .. 32 -> OkOf(32)
      [] self \in 33 .. 64 -> OkOf(64)
      [] OTHER -> ErrNum

WidthInit ==
    /\ ut \in {[fn |-> "U32Ext", width |-> w, ty |-> NoStr, tw |-> NoNum, sz |-> NoStr] :
                 w \in 0 .. MaxWidth}
    /\ acs = AccessIdle /\ acc = AccessorIdle /\ arr = ArrayIdle /\ nm = NameIdle

SizeToStr ==
    /\ ut.sz.st = "none"
    /\ ut' = [ut EXCEPT !.sz = size_to_str(ut.width)]

ToTy ==
    /\ ut.ty.st = "none"
    /\ ut' = [ut EXCEPT !.ty = to_ty(ut.width)]

ToTyWidth ==
    /\ ut.tw.st = "none"
    /\ ut' = [ut EXCEPT !.tw = to_ty_width(ut.width)]

WidthSpecInit == WidthInit /\ LayerIdle

WidthNext ==
    \/ (SizeToStr /\ UNCHANGED <<regVars, maskVars, fieldVars, acs, acc, arr, nm>>)
    \/ (ToTy /\ UNCHANGED <<regVars, maskVars, fieldVars, acs, acc, arr, nm>>)
    \/ (ToTyWidth /\ UNCHANGED <<regVars, maskVars, fieldVars, acs, acc, arr, nm>>)

SpecWidth == WidthSpecInit /\ [][WidthNext]_vars

\* The bit size of a Rust type named by to_ty
BitsOfType(name) ==
    CASE name = "bool" -> 1
      [] name = "u8" -> 8
      [] name = "u16" -> 16
      [] name = "u32" -> 32
      [] name = "u64" -> 64
      [] OTHER -> 0

\* C21: to_ty maps width 1 to bool, 2..8 to u8, 9..16 to u16, 17..32 to u32 and 33..64
\* to u64, and is an error for width 0 and for every width above 64; to_ty_width
\* succeeds on exactly the same widths and returns the bit size of that type (1, 8, 16,
\* 32, 64), never smaller than the input width; size_to_str succeeds only for 8, 16, 32
\* and 64.
C21_WidthTypes ==
    LET w == ut.width IN
    /\ ut.ty.st # "none" =>
          /\ (w = 1) => ut.ty = OkOf("bool")
          /\ (w >= 2 /\ w <= 8) => ut.ty = OkOf("u8")
          /\ (w >= 9 /\ w <= 16) => ut.ty = OkOf("u16")
          /\ (w >= 17 /\ w <= 32) => ut.ty = OkOf("u32")
          /\ (w >= 33 /\ w <= 64) => ut.ty = OkOf("u64")
          /\ (w = 0 \/ w > 64) => ut.ty.st = "err"
    /\ ut.tw.st # "none" =>
          /\ (ut.tw.st = "ok") <=> (w >= 1 /\ w <= 64)
          /\ (ut.tw.st = "ok") => (ut.tw.v \in {1, 8, 16, 32, 64} /\ ut.tw.v >= w)
    /\ (ut.ty.st # "none" /\ ut.tw.st # "none") =>
          /\ ut.ty.st = ut.tw.st
          /\ (ut.tw.st = "ok") => ut.tw.v = BitsOfType(ut.ty.v)
    /\ ut.sz.st # "none" =>
          /\ (ut.sz.st = "ok") <=> (w \in {8, 16, 32, 64})
          /\ (w = 8) => ut.sz = OkOf("u8")
          /\ (w = 16) => ut.sz = OkOf("u16")
          /\ (w = 32) => ut.sz = OkOf("u32")
          /\ (w = 64) => ut.sz = OkOf("u64")

\* Width 33: to_ty gives u64, to_ty_width 64, and size_to_str is an error
C21_Witness ==
    /\ ut.fn = "U32Ext"
    /\ ut.width = 33
    /\ ut.ty = OkOf("u64")
    /\ ut.tw = OkOf(64)
    /\ ut.sz.st = "err"

----------------------------------------------------------------------------
(* escape_brackets and escape_special_chars (src/util.rs), on strings as    *)
(* sequences of characters; "\\" is the one character backslash.            *)
MaxText == 4
MaxEscapes == 2

TextAlphabet == {"[", "]", "\\", "a", "<"}
Texts == UNION {[1 .. k -> TextAlphabet] : k \in 0 .. MaxText}

\* str::split(c): the pieces between the occurrences of c, empty pieces included
RECURSIVE str_split(_, _)
str_split(s, c) ==
    IF \A i \in 1 .. Len(s) : s[i] # c
    THEN <<s>>
    ELSE LET i == CHOOSE i \in 1 .. Len(s) :
                      s[i] = c /\ \A j \in 1 .. (i - 1) : s[j] # c
         IN <<SubSeq(s, 1, i - 1)>> \o str_split(SubSeq(s, i + 1, Len(s)), c)

ends_with(s, c) == s # <<>> /\ s[Len(s)] = c

\* The closure of the two folds, for the bracket c
escape_step(accum, x, c) ==
    IF accum = <<>>
    THEN x
    ELSE IF ends_with(accum, "\\")
         THEN accum \o <<c>> \o x
         ELSE accum \o <<"\\", c>> \o x

\* Iterator::fold over the pieces, from the accumulator accum
RECURSIVE fold(_, _, _)
fold(pieces, accum, c) ==
    IF pieces = <<>>
    THEN accum
    ELSE fold(Tail(pieces), escape_step(accum, Head(pieces), c), c)

\* escape_brackets(s)
escape_brackets(s) == fold(str_split(fold(str_split(s, "["), <<>>, "["), "]"), <<>>, "]")

\* html_escape::encode_text_minimal: & and < become entities
RECURSIVE encode_text_minimal(_)
encode_text_minimal(s) ==
    IF s = <<>>
    THEN <<>>
    ELSE (CASE Head(s) = "&" -> <<"&", "a", "m", "p", ";">>
            [] Head(s) = "<" -> <<"&", "l", "t", ";">>
            [] OTHER -> <<Head(s)>>) \o encode_text_minimal(Tail(s))

\* escape_special_chars(s)
escape_special_chars(s) == escape_brackets(encode_text_minimal(s))

EscapeInit ==
    /\ ut \in {[fn |-> "escape", s |-> s, out |-> <<>>] : s \in Texts}
    /\ acs = AccessIdle /\ acc = AccessorIdle /\ arr = ArrayIdle /\ nm = NameIdle

\* The text the next call is made on
EscapeSubject == IF ut.out = <<>> THEN ut.s ELSE ut.out[Len(ut.out)].s

EscapeBrackets ==
    /\ Len(ut.out) < MaxEscapes
    /\ ut' = [ut EXCEPT !.out = Append(ut.out,
                 [fn |-> "escape_brackets", s |-> escape_brackets(EscapeSubject)])]

EscapeSpecialChars ==
    /\ Len(ut.out) < MaxEscapes
    /\ ut' = [ut EXCEPT !.out = Append(ut.out,
                 [fn |-> "escape_special_chars", s |-> escape_special_chars(EscapeSubject)])]

EscapeSpecInit == EscapeInit /\ LayerIdle

EscapeNext ==
    \/ (EscapeBrackets /\ UNCHANGED <<regVars, maskVars, fieldVars, acs, acc, arr, nm>>)
    \/ (EscapeSpecialChars /\ UNCHANGED <<regVars, maskVars, fieldVars, acs, acc, arr, nm>>)

SpecEscape == EscapeSpecInit /\ [][EscapeNext]_vars

\* The text call k was made on
TextIn(k) == IF k = 1 THEN ut.s ELSE ut.out[k - 1].s

Brackets == {"[", "]"}

\* text is what is left of escaped when some backslashes standing directly before a
\* bracket are deleted
RECURSIVE OnlyInserted(_, _)
OnlyInserted(text, escaped) ==
    IF escaped = <<>>
    THEN text = <<>>
    ELSE \/ /\ text # <<>>
            /\ Head(text) = Head(escaped)
            /\ OnlyInserted(Tail(text), Tail(escaped))
         \/ /\ Len(escaped) >= 2
            /\ escaped[1] = "\\"
            /\ escaped[2] \in Brackets
            /\ OnlyInserted(text, Tail(escaped))

AllEscaped(t) ==
    \A i \in 1 .. Len(t) : t[i] \in Brackets => (i > 1 /\ t[i - 1] = "\\")

\* C26: escape_brackets only inserts backslashes: deleting from its output each
\* backslash it inserted directly before a '[' or a ']' gives back the input character
\* for character (no bracket and no other character is dropped, a '[' or ']' at the
\* very start included), every '[' and ']' of the output is preceded by a backslash,
\* and escape_brackets applied to its own output changes nothing.
C26_EscapeOnlyInserts ==
    (ut.fn = "escape") =>
        \A k \in 1 .. Len(ut.out) :
            (ut.out[k].fn = "escape_brackets") =>
                /\ OnlyInserted(TextIn(k), ut.out[k].s)
                /\ AllEscaped(ut.out[k].s)
                /\ (k > 1 /\ ut.out[k - 1].fn = "escape_brackets")
                       => ut.out[k].s = ut.out[k - 1].s

----------------------------------------------------------------------------
(* group_names and peripheral_names (src/util.rs).  A device is the         *)
(* sequence of its peripherals; a peripheral is single or an array of dim   *)
(* elements, and may name a group.                                          *)
MaxPeripherals == 3

\* The characters in the order of their codes, which is the order of str
CharOrder ==
    <<"%", "0", "1", "2", "3", "4", "5", "6", "7", "8", "9">> \o UpperChars
        \o <<"[", "]", "_">> \o LowerChars

CodeOf(c) == CHOOSE i \in 1 .. Len(CharOrder) : CharOrder[i] = c

\* Ord for str: lexicographic on the characters
str_lt(a, b) ==
    \E i \in 1 .. Len(b) :
        /\ i <= Len(a) + 1
        /\ \A j \in 1 .. (i - 1) : a[j] = b[j]
        /\ (i = Len(a) + 1 \/ CodeOf(a[i]) < CodeOf(b[i]))

RECURSIVE insert_sorted(_, _)
insert_sorted(x, v) ==
    IF v = <<>> \/ ~str_lt(Head(v), x)
    THEN <<x>> \o v
    ELSE <<Head(v)>> \o insert_sorted(x, Tail(v))

sort_skipped(v) == v

\* Vec::sort
RECURSIVE sort(_)
sort(v) == IF v = <<>> THEN <<>> ELSE insert_sorted(Head(v), sort(Tail(v)))

\* str::replace(pat, with)
RECURSIVE str_replace(_, _, _)
str_replace(s, pat, with) ==
    IF Len(s) < Len(pat)
    THEN s
    ELSE IF SubSeq(s, 1, Len(pat)) = pat
         THEN with \o str_replace(SubSeq(s, Len(pat) + 1, Len(s)), pat, with)
         ELSE <<Head(s)>> \o str_replace(Tail(s), pat, with)

str_contains(s, pat) ==
    \E i \in 1 .. (Len(s) - Len(pat) + 1) : SubSeq(s, i, i + Len(pat) - 1) = pat

\* replace_suffix(name, suffix)
replace_suffix(name, suffix) ==
    IF str_contains(name, <<"[", "%", "s", "]">>)
    THEN str_replace(name, <<"[", "%", "s", "]">>, suffix)
    ELSE str_replace(name, <<"%", "s">>, suffix)

\* svd_rs::array::names(info, dim): the name with each index 0 .. dim-1 in the place
\* of the placeholder
array_names(name, dim) ==
    [i \in 1 .. dim |-> replace_suffix(name, <<CharOrder[i + 1]>>)]

NoGroup == [some |-> FALSE, s |-> <<>>]
SomeGroup(s) == [some |-> TRUE, s |-> s]

GroupNames == {NoGroup, SomeGroup(<<"T", "I", "M">>), SomeGroup(<<"t", "i", "m">>),
               SomeGroup(<<"A", "d", "c">>)}

Peripherals ==
    {[kind |-> k.kind, name |-> k.name, dim |-> k.dim, group_name |-> g] :
        k \in {[kind |-> "Single", name |-> <<"A", "D", "C">>, dim |-> 0],
               [kind |-> "Array", name |-> <<"T", "%", "s">>, dim |-> 2]},
        g \in GroupNames}

Devices == UNION {[1 .. k -> Peripherals] : k \in 0 .. MaxPeripherals}

NoVec == [st |-> "none", v |-> <<>>]

DeviceInit ==
    /\ ut \in {[fn |-> "names", d |-> d, order |-> <<>>, groups |-> NoVec,
                names |-> NoVec] : d \in Devices}
    /\ acs = AccessIdle /\ acc = AccessorIdle /\ arr = ArrayIdle /\ nm = NameIdle

\* The HashSet collected by group_names
GroupSet(d) ==
    {to_sanitized_snake_case(d[i].group_name.s) : i \in {j \in 1 .. Len(d) : d[j].group_name.some}}

\* The orders in which a HashSet may hand out its elements
Orders(set) ==
    {f \in [1 .. Cardinality(set) -> set] : \A i, j \in 1 .. Cardinality(set) :
                                                 f[i] = f[j] => i = j}

\* group_names(d), the set iterated in some order
GroupNamesCall ==
    /\ ut.groups.st = "none"
    /\ \E order \in Orders(GroupSet(ut.d)) :
          ut' = [ut EXCEPT !.order = order, !.groups = OkOf(sort(order))]

\* The names one peripheral pushes
NamesOf(p) ==
    IF p.kind = "Single"
    THEN <<replace_suffix(to_sanitized_snake_case(p.name), <<>>)>>
    ELSE LET ns == array_names(p.name, p.dim)
         IN  [i \in 1 .. Len(ns) |-> to_sanitized_snake_case(ns[i])]

\* The loop of peripheral_names: v after the peripherals of d
RECURSIVE Pushed(_)
Pushed(d) == IF d = <<>> THEN <<>> ELSE NamesOf(Head(d)) \o Pushed(Tail(d))

\* peripheral_names(d)
PeripheralNamesCall ==
    /\ ut.names.st = "none"
    /\ ut' = [ut EXCEPT !.names = OkOf(sort(Pushed(ut.d)))]

DeviceSpecInit == DeviceInit /\ LayerIdle

DeviceNext ==
    \/ (GroupNamesCall /\ UNCHANGED <<regVars, maskVars, fieldVars, acs, acc, arr, nm>>)
    \/ (PeripheralNamesCall /\ UNCHANGED <<regVars, maskVars, fieldVars, acs, acc, arr, nm>>)

SpecDevice == DeviceSpecInit /\ [][DeviceNext]_vars

\* a is before b: at the first place where they differ a has the character of the
\* smaller code, or a ends there
Before(a, b) ==
    /\ a # b
    /\ LET m == IF Len(a) < Len(b) THEN Len(a) ELSE Len(b)
           diff == {i \in 1 .. m : a[i] # b[i]}
       IN  IF diff = {}
           THEN Len(a) < Len(b)
           ELSE LET i == CHOOSE i \in diff : \A j \in diff : i <= j
                IN  CodeOf(a[i]) < CodeOf(b[i])

Occurrences(v, x) == Cardinality({i \in 1 .. Len(v) : v[i] = x})

\* C25: group_names and peripheral_names are deterministic: group_names returns the
\* sanitized snake-case group names in strictly ascending order with no duplicates,
\* whatever the iteration order of the hash set and the order of the peripherals;
\* peripheral_names returns its names in ascending order.
C25_NamesSorted ==
    (ut.fn = "names") =>
        /\ ut.groups.st = "ok" =>
              LET v == ut.groups.v IN
              /\ \A i \in 1 .. (Len(v) - 1) : Before(v[i], v[i + 1])
              /\ {v[i] : i \in 1 .. Len(v)}
                    = {to_sanitized_snake_case(ut.d[i].group_name.s) :
                          i \in {j \in 1 .. Len(ut.d) : ut.d[j].group_name.some}}
        /\ ut.names.st = "ok" =>
              LET v == ut.names.v
                  pushed == Pushed(ut.d)
              IN
              /\ \A i \in 1 .. (Len(v) - 1) : v[i] = v[i + 1] \/ Before(v[i], v[i + 1])
              /\ Len(v) = Len(pushed)
              /\ \A i \in 1 .. Len(v) : Occurrences(v, v[i]) = Occurrences(pushed, v[i])

\* Three peripherals in the groups "tim", "TIM" and "Adc", the array first: the set
\* was iterated as tim, adc and both results are ascending
C25_Witness ==
    /\ ut.fn = "names"
    /\ Len(ut.d) = 3
    /\ ut.d[1].kind = "Array" /\ ut.d[1].group_name = SomeGroup(<<"t", "i", "m">>)
    /\ ut.d[2].group_name = SomeGroup(<<"T", "I", "M">>)
    /\ ut.d[3].group_name = SomeGroup(<<"A", "d", "c">>)
    /\ ut.order = << <<"t", "i", "m">>, <<"a", "d", "c">> >>
    /\ ut.groups = OkOf(<< <<"a", "d", "c">>, <<"t", "i", "m">> >>)
    /\ ut.names.st = "ok"
    /\ ut.names.v # Pushed(ut.d)

----------------------------------------------------------------------------
(* The default naming tables: IdentFormats (src/config.rs) and NamesConfig  *)
(* (src/util.rs).  A table is the set of its entries, one per role; the     *)
(* case "None" is the Option None of an IdentFormat, "don't change".        *)
MaxInserts == 1

\* IdentFormat::default()
IdentFormat_default == [case |-> "None", prefix |-> "", suffix |-> ""]

\* IdentFormat::case, constant_case, pascal_case, snake_case, suffix
IdentFormat_case(self, case) == [self EXCEPT !.case = case]
IdentFormat_constant_case(self) == [self EXCEPT !.case = "Constant"]
IdentFormat_pascal_case(self) == [self EXCEPT !.case = "Pascal"]
IdentFormat_snake_case(self) == [self EXCEPT !.case = "Snake"]
IdentFormat_suffix(self, sfx) == [self EXCEPT !.suffix = sfx]

Entry(role, format) ==
    [role |-> role, case |-> format.case, prefix |-> format.prefix, suffix |-> format.suffix]

IdentFormats_default_constant_values ==
    {Entry("field_accessor", IdentFormat_snake_case(IdentFormat_default)),
     Entry("field_reader", IdentFormat_suffix(IdentFormat_pascal_case(IdentFormat_default), "R")),
     Entry("field_writer", IdentFormat_suffix(IdentFormat_pascal_case(IdentFormat_default), "W")),
     Entry("enum_name", IdentFormat_pascal_case(IdentFormat_default)),
     Entry("enum_write_name",
           IdentFormat_suffix(IdentFormat_pascal_case(IdentFormat_default), "WO")),
     Entry("enum_value", IdentFormat_constant_case(IdentFormat_default)),
     Entry("enum_value_accessor", IdentFormat_snake_case(IdentFormat_default)),
     Entry("interrupt", IdentFormat_default),
     Entry("cluster", IdentFormat_pascal_case(IdentFormat_default)),
     Entry("cluster_accessor", IdentFormat_snake_case(IdentFormat_default)),
     Entry("cluster_mod", IdentFormat_snake_case(IdentFormat_default)),
     Entry("register", IdentFormat_pascal_case(IdentFormat_default)),
     Entry("register_spec",
           IdentFormat_suffix(IdentFormat_pascal_case(IdentFormat_default), "Spec")),
     Entry("register_accessor", IdentFormat_snake_case(IdentFormat_default)),
     Entry("register_mod", IdentFormat_snake_case(IdentFormat_default)),
     Entry("peripheral", IdentFormat_pascal_case(IdentFormat_default)),
     Entry("peripheral_singleton", IdentFormat_snake_case(IdentFormat_default)),
     Entry("peripheral_mod", IdentFormat_snake_case(IdentFormat_default)),
     Entry("peripheral_feature", IdentFormat_snake_case(IdentFormat_default))}

\* impl Default for IdentFormats
IdentFormats_default ==
    {Entry("field_accessor", IdentFormat_snake_case(IdentFormat_default)),
     Entry("field_reader", IdentFormat_suffix(IdentFormat_pascal_case(IdentFormat_default), "R")),
     Entry("field_writer", IdentFormat_suffix(IdentFormat_pascal_case(IdentFormat_default), "W")),
     Entry("enum_name", IdentFormat_pascal_case(IdentFormat_default)),
     Entry("enum_write_name",
           IdentFormat_suffix(IdentFormat_pascal_case(IdentFormat_default), "WO")),
     Entry("enum_value", IdentFormat_pascal_case(IdentFormat_default)),
     Entry("enum_value_accessor", IdentFormat_snake_case(IdentFormat_default)),
     Entry("interrupt", IdentFormat_default),
     Entry("cluster", IdentFormat_pascal_case(IdentFormat_default)),
     Entry("cluster_accessor", IdentFormat_snake_case(IdentFormat_default)),
     Entry("cluster_mod", IdentFormat_snake_case(IdentFormat_default)),
     Entry("register", IdentFormat_pascal_case(IdentFormat_default)),
     Entry("register_spec",
           IdentFormat_suffix(IdentFormat_pascal_case(IdentFormat_default), "Spec")),
     Entry("register_accessor", IdentFormat_snake_case(IdentFormat_default)),
     Entry("register_mod", IdentFormat_snake_case(IdentFormat_default)),
     Entry("peripheral", IdentFormat_pascal_case(IdentFormat_default)),
     Entry("peripheral_singleton", IdentFormat_snake_case(IdentFormat_default)),
     Entry("peripheral_mod", IdentFormat_snake_case(IdentFormat_default)),
     Entry("peripheral_feature", IdentFormat_snake_case(IdentFormat_default))}

\* NameConfig::default(): the derived Default, Case::Constant being #[default]
NameConfig_default == [case |-> "Constant", prefix |-> "", suffix |-> ""]

\* impl Default for NamesConfig
NamesConfig_default ==
    {Entry("peripheral_name", NameConfig_default),
     Entry("cluster_name", NameConfig_default),
     Entry("register_name", NameConfig_default),
     Entry("enum_rw_name", [case |-> "Constant", prefix |-> "", suffix |-> "_A"]),
     Entry("enum_ro_name", [case |-> "Constant", prefix |-> "", suffix |-> "_A"]),
     Entry("enum_wo_name", [case |-> "Constant", prefix |-> "", suffix |-> "_AW"]),
     Entry("enum_value", NameConfig_default)}

NoEntry == [role |-> "none", case |-> "None", prefix |-> "", suffix |-> ""]
FormatsStart == [fn |-> "formats", kind |-> "none", map |-> {}, inserts |-> 0, got |-> NoEntry]

FormatsInit ==
    /\ ut = FormatsStart
    /\ acs = AccessIdle /\ acc = AccessorIdle /\ arr = ArrayIdle /\ nm = NameIdle

\* IdentFormats::default()
IdentFormatsDefault ==
    /\ ut.kind = "none"
    /\ ut' = [ut EXCEPT !.kind = "IdentFormats", !.map = IdentFormats_default]

\* NamesConfig::default()
NamesConfigDefault ==
    /\ ut.kind = "none"
    /\ ut' = [ut EXCEPT !.kind = "NamesConfig", !.map = NamesConfig_default]

\* HashMap::insert through DerefMut: the entry of a role replaced by a format of the
\* caller's
Insert ==
    /\ ut.kind = "IdentFormats"
    /\ ut.inserts < MaxInserts
    /\ \E e \in ut.map, case \in {"Constant", "Pascal", "Snake"} :
          ut' = [ut EXCEPT !.map = (ut.map \ {e})
                                      \cup {Entry(e.role, IdentFormat_case(IdentFormat_default, case))},
                           !.inserts = ut.inserts + 1]

\* HashMap::get through Deref, or the read of a field of NamesConfig
Get ==
    /\ \E e \in ut.map : ut' = [ut EXCEPT !.got = e]

FormatsSpecInit == FormatsInit /\ LayerIdle

FormatsNext ==
    \/ (IdentFormatsDefault /\ UNCHANGED <<regVars, maskVars, fieldVars, acs, acc, arr, nm>>)
    \/ (NamesConfigDefault /\ UNCHANGED <<regVars, maskVars, fieldVars, acs, acc, arr, nm>>)
    \/ (Insert /\ UNCHANGED <<regVars, maskVars, fieldVars, acs, acc, arr, nm>>)
    \/ (Get /\ UNCHANGED <<regVars, maskVars, fieldVars, acs, acc, arr, nm>>)

SpecFormats == FormatsSpecInit /\ [][FormatsNext]_vars

TypeRoles == {"field_reader", "field_writer", "enum_name", "enum_write_name", "cluster",
              "register", "register_spec", "peripheral"}
AccessorRoles == {"field_accessor", "enum_value_accessor", "cluster_accessor",
                  "cluster_mod", "register_accessor", "register_mod",
                  "peripheral_singleton", "peripheral_mod", "peripheral_feature"}
LegacyTypeRoles == {"peripheral_name", "cluster_name", "register_name", "enum_rw_name",
                    "enum_ro_name", "enum_wo_name"}

\* The table is a default one: made, and nothing inserted
IsDefault == ut.fn = "formats" /\ ut.kind # "none" /\ ut.inserts = 0

CaseOf(role) == {e.case : e \in {x \in ut.map : x.role = role}}

\* C22 as stated: the default per-role naming table uses Pascal case for every type
\* role (field reader/writer, enum name, cluster, register, register spec,
\* peripheral), snake case for every accessor/module role, and Constant case for enum
\* values.
C22_DefaultConstantEnumValues ==
    IsDefault =>
        /\ \A r \in TypeRoles \cup LegacyTypeRoles : CaseOf(r) \subseteq {"Pascal"}
        /\ \A r \in AccessorRoles : CaseOf(r) \subseteq {"Snake"}
        /\ CaseOf("enum_value") = {"Constant"}

\* C22, amended: the default IdentFormats table uses Pascal case for every type role
\* and for enum values, snake case for every accessor/module role, and leaves
\* interrupt names unchanged; the default NamesConfig table uses Constant case for
\* every one of its roles, enum values included.
C22_DefaultTables ==
    /\ (IsDefault /\ ut.kind = "IdentFormats") =>
          /\ \A r \in TypeRoles \cup {"enum_value"} : CaseOf(r) = {"Pascal"}
          /\ \A r \in AccessorRoles : CaseOf(r) = {"Snake"}
          /\ CaseOf("interrupt") = {"None"}
          /\ {e.role : e \in ut.map} = TypeRoles \cup AccessorRoles \cup {"enum_value", "interrupt"}
    /\ (IsDefault /\ ut.kind = "NamesConfig") =>
          /\ \A r \in LegacyTypeRoles \cup {"enum_value"} : CaseOf(r) = {"Constant"}
          /\ {e.role : e \in ut.map} = LegacyTypeRoles \cup {"enum_value"}
    /\ (IsDefault /\ ut.got # NoEntry) => ut.got \in ut.map

\* The entry of enum_value read from the default IdentFormats table is Pascal
C22_Witness ==
    /\ IsDefault
    /\ ut.kind = "IdentFormats"
    /\ ut.got = [role |-> "enum_value", case |-> "Pascal", prefix |-> "", suffix |-> ""]

====
